---- MODULE Spec2Model ----
(***************************************************************************)
(* A model of the literm server: the sandbox resolver (fs.rs), the session *)
(* store (session.rs), the HTTP surface (http/fs.rs, http/login.rs), and   *)
(* the terminal WebSocket bridge (ws/terminal.rs over pty.rs).             *)
(*                                                                         *)
(* Paths are sequences of component names; the empty sequence is "/".      *)
(* A user-supplied path string is a record [abs, comps]: whether it begins *)
(* with "/" and its components ("" is [abs |-> FALSE, comps |-> <<>>]).    *)
(***************************************************************************)
EXTENDS Integers, Sequences, FiniteSets, TLC

---------------------------------------------------------------------------
(* Bounds of the model *)

\* longest user-supplied path, in components
MaxDepth == 2
\* last instant of the clock, in ticks
MaxTicks == 3
\* most sessions ever created
MaxSessions == 2
\* config.server.session_timeout_minutes of the run
SessionTimeoutMinutes == 2
\* most messages a client sends on one WebSocket
MaxMsgs == 2
\* most bytes the shell writes to its terminal
MaxOut == 2

\* the bytes the PTY holds for a shell that has not read them: a write that
\* finds no room for its payload blocks (no frame's payload is longer)
PtyCapacity == 2

\* how many messages the client of the watch socket sends
MaxWatchMsgs == 3

\* how many results the platform watcher delivers
MaxEvents == 2

---------------------------------------------------------------------------
(* The host filesystem the process runs on *)

Dirs == { <<>>, <<"box">>, <<"box", "d">>, <<"etc">> }

\* "n_xFF" stands for a name holding a byte that is not valid UTF-8
Files == { <<"box", "a.txt">>, <<"box", ".h">>, <<"box", "d", "f">>,
           <<"box", "n_xFF">>, <<"etc", "passwd">> }

\* symbolic links: link path -> canonical target
LinkTarget(p) ==
    CASE p = <<"box", "out">> -> <<"etc">>
      [] p = <<"box", "in">>  -> <<"box", "d">>
      [] p = <<"box", "ln">>  -> <<"box", "n_xFF">>
      [] p = <<"r">>          -> <<"box">>

Links == { <<"box", "out">>, <<"box", "in">>, <<"box", "ln">>, <<"r">> }

\* the names a client may put in a path: a request's path is a Rust String,
\* valid UTF-8
Components == { "..", "box", "d", "f", "a.txt", "out", "in", "ln", "etc",
                "passwd" }

RECURSIVE SeqsUpTo(_, _)
SeqsUpTo(S, n) ==
    IF n = 0 THEN { <<>> }
    ELSE LET shorter == SeqsUpTo(S, n - 1)
         IN  shorter \cup { Append(s, c) : s \in shorter, c \in S }

\* every path string a client may send
Inputs == [ abs : BOOLEAN, comps : SeqsUpTo(Components, MaxDepth) ]

EmptyRel == [ abs |-> FALSE, comps |-> <<>> ]

---------------------------------------------------------------------------
(* Paths *)

IsPrefix(p, q) == Len(p) <= Len(q) /\ SubSeq(q, 1, Len(p)) = p

Parent(p) == IF p = <<>> THEN <<>> ELSE SubSeq(p, 1, Len(p) - 1)

\* Path::starts_with: component-wise prefix
starts_with(path, base) == IsPrefix(base, path)

\* PathBuf::push: an absolute argument replaces the path
push(base, rel) == IF rel.abs THEN rel.comps ELSE base \o rel.comps

\* OsStr::to_string_lossy: U+FFFD in place of what is not valid UTF-8
to_string_lossy(name) == IF name = "n_xFF" THEN "n_uFFFD" ELSE name

---------------------------------------------------------------------------
(* Errors (error.rs) *)

NoPath == << "<none>" >>

Ok(p) == [ ok |-> TRUE, path |-> p, kind |-> "", msg |-> "" ]

Err(k, m) == [ ok |-> FALSE, path |-> NoPath, kind |-> k, msg |-> m ]

\* AppError's Display (the #[error(...)] attributes)
to_string(e) ==
    CASE e.kind = "Io"           -> "io error: " \o e.msg
      [] e.kind = "Unauthorized" -> "unauthorized"
      [] e.kind = "BadRequest"   -> "bad request: " \o e.msg
      [] e.kind = "Internal"     -> "internal error: " \o e.msg
      [] e.kind = "Config"       -> "config error: " \o e.msg

StatusCode_bad_request_as_500(e) ==
    CASE e.kind = "Unauthorized" -> 401
      [] OTHER                   -> 500

StatusCode(e) ==
    CASE e.kind = "Unauthorized" -> 401
      [] e.kind = "BadRequest"   -> 400
      [] OTHER                   -> 500

\* AppError::into_response: the status and the {"error": ...} body
into_response(e) == [ status |-> StatusCode(e), error |-> to_string(e) ]

---------------------------------------------------------------------------
(* std::fs::canonicalize: dereference every component, which must exist *)

RECURSIVE Walk(_, _)
Walk(cur, rest) ==
    IF rest = <<>> THEN Ok(cur)
    ELSE IF cur \in Files THEN Err("Io", "Not a directory")
    ELSE LET c == Head(rest)
             next == Append(cur, c)
         IN  IF c = ".." THEN Walk(Parent(cur), Tail(rest))
             ELSE IF next \in Links THEN Walk(LinkTarget(next), Tail(rest))
             ELSE IF next \in Dirs \cup Files THEN Walk(next, Tail(rest))
             ELSE Err("Io", "No such file or directory")

canonicalize(p) == Walk(<<>>, p)

\* the process's working directory, against which a relative root is taken
Cwd == <<>>

---------------------------------------------------------------------------
(* FsService (fs.rs) *)

\* resolve_path after `let root = self.root()`: rootv is the value read
\* (the containment check made on the joined path, before canonicalization)
resolve_path_lexical(rootv, relative) ==
    LET candidate == IF relative.comps # <<>> \/ relative.abs
                     THEN push(rootv, relative) ELSE rootv
        canonical == canonicalize(candidate)
    IN  IF ~canonical.ok THEN canonical
        ELSE IF ~starts_with(candidate, rootv)
             THEN Err("BadRequest", "path escapes root_dir")
        ELSE canonical

\* (a resolve that returns the joined path when it names nothing)
resolve_path_lenient(rootv, relative) ==
    LET candidate == IF relative.comps # <<>> \/ relative.abs
                     THEN push(rootv, relative) ELSE rootv
        canonical == canonicalize(candidate)
    IN  IF ~canonical.ok THEN Ok(candidate)
        ELSE IF ~starts_with(canonical.path, rootv)
             THEN Err("BadRequest", "path escapes root_dir")
        ELSE canonical

resolve_path(rootv, relative) ==
    LET candidate == IF relative.comps # <<>> \/ relative.abs
                     THEN push(rootv, relative) ELSE rootv
        canonical == canonicalize(candidate)
    IN  IF ~canonical.ok THEN canonical
        ELSE IF ~starts_with(canonical.path, rootv)
             THEN Err("BadRequest", "path escapes root_dir")
        ELSE canonical

\* to_relative: strip_prefix, none when absolute is not under the root
NoRel == [ some |-> FALSE, comps |-> <<>> ]

to_relative(rootv, absolute) ==
    IF IsPrefix(rootv, absolute)
    THEN [ some |-> TRUE,
           comps |-> [ i \in 1..(Len(absolute) - Len(rootv)) |->
                         to_string_lossy(absolute[Len(rootv) + i]) ] ]
    ELSE NoRel

\* set_root's canonicalize of the requested root
set_root(new_root) == canonicalize(push(Cwd, new_root))

---------------------------------------------------------------------------
(* The filesystem HTTP surface (http/fs.rs): each handler's body, given the
   root that its resolve_path call read.  Sizes and modification times of
   directory entries are host metadata and are not modelled. *)

Utf8Files == { <<"box", "a.txt">>, <<"box", ".h">>, <<"etc", "passwd">> }

Content(p) ==
    CASE p = <<"box", "a.txt">>  -> "hi"
      [] p = <<"etc", "passwd">> -> "root:x:0:0"
      [] OTHER                   -> ""

Name(p) == p[Len(p)]

\* MimeGuess::from_path(..).first_or_octet_stream()
Mime(p) ==
    IF p # <<>> /\ Name(p) = "a.txt" THEN "text/plain"
    ELSE "application/octet-stream"

NoBody == [ kind |-> "none", path |-> EmptyRel, content |-> "", entries |-> {},
            ctype |-> "", authenticated |-> FALSE ]

HttpOk(b) == [ status |-> 200, error |-> "", body |-> b ]

HttpErr(e) == [ status |-> into_response(e).status,
                error |-> into_response(e).error, body |-> NoBody ]

NoResp == [ status |-> 0, error |-> "", body |-> NoBody ]

\* the directory entries read_dir yields, with DirEntry::metadata (which does
\* not follow a symbolic link, so a link is reported as a file)
Entries(dir, show_hidden) ==
    { [ name |-> to_string_lossy(Name(p)),
        entry_type |-> IF p \in Dirs THEN "dir" ELSE "file" ] :
      p \in { q \in (Dirs \cup Files \cup Links) \ { <<>> } :
                 /\ Parent(q) = dir
                 /\ (show_hidden \/ Name(q) \notin { ".h" }) } }

list_handler(rootv, query) ==
    LET resolved == resolve_path(rootv, query.path)
    IN  IF ~resolved.ok THEN HttpErr(resolved)
        ELSE IF resolved.path \notin Dirs
             THEN HttpErr(Err("Io", "Not a directory"))
        ELSE HttpOk([ NoBody EXCEPT !.kind = "list", !.path = query.path,
                        !.entries = Entries(resolved.path, query.show_hidden) ])

content_handler(rootv, query) ==
    LET resolved == resolve_path(rootv, query.path)
    IN  IF ~resolved.ok THEN HttpErr(resolved)
        ELSE IF resolved.path \in Dirs
             THEN HttpErr(Err("Io", "Is a directory"))
        ELSE IF resolved.path \notin Utf8Files
             THEN HttpErr(Err("Io", "stream did not contain valid UTF-8"))
        ELSE HttpOk([ NoBody EXCEPT !.kind = "content", !.path = query.path,
                        !.content = Content(resolved.path) ])

\* the body is streamed from the open file; opening a directory succeeds
raw_handler(rootv, query) ==
    LET resolved == resolve_path(rootv, query.path)
    IN  IF ~resolved.ok THEN HttpErr(resolved)
        ELSE HttpOk([ NoBody EXCEPT !.kind = "raw",
                        !.content = Content(resolved.path),
                        !.ctype = Mime(resolved.path) ])

---------------------------------------------------------------------------
(* SessionStore (session.rs): a map from session id to expiry instant.
   The clock counts minutes. *)

SessionIds == 1..MaxSessions

\* SessionStore::new: Duration::from_secs(ttl_minutes.saturating_mul(60))
ttl == SessionTimeoutMinutes

\* (the comparison of retain reversed)
prune_expired_reversed(inner, t) ==
    [ id \in { i \in DOMAIN inner : inner[i] < t } |-> inner[id] ]

\* (a sweep that keeps the entries that expire at this very instant)
prune_expired_inclusive(inner, t) ==
    [ id \in { i \in DOMAIN inner : inner[i] >= t } |-> inner[id] ]

\* prune_expired: guard.retain(|_, &mut expires_at| expires_at > now)
prune_expired(inner, t) ==
    [ id \in { i \in DOMAIN inner : inner[i] > t } |-> inner[id] ]

\* guard.insert(id, expires_at)
insert(inner, id, expires_at) ==
    [ i \in DOMAIN inner \cup { id } |->
        IF i = id THEN expires_at ELSE inner[i] ]

\* (a remove that leaves the map as it is)
remove_nothing(inner, id) == inner

\* remove: guard.remove(id)
remove(inner, id) == [ i \in DOMAIN inner \ { id } |-> inner[i] ]

\* validate's lookup after the prune: guard.get(id).is_some()
is_some(inner, id) == id \in DOMAIN inner

---------------------------------------------------------------------------
(* Login, logout and status (http/login.rs) *)

\* a Cookie header: its ';'-separated items, each split at '='
Cookie(n, v, k) == [ name |-> n, value |-> v, parts |-> k ]

NoHeaders == [ present |-> FALSE, cookies |-> <<>> ]

CookieHeader(cs) == [ present |-> TRUE, cookies |-> cs ]

\* an id no create_session call returns
BogusId == MaxSessions + 1

NoId == [ some |-> FALSE, value |-> 0 ]

\* extract_session_id_from_headers: the first item that splits in exactly
\* two parts and is named "session"
extract_session_id_from_headers(headers) ==
    LET hits == { i \in 1..Len(headers.cookies) :
                    /\ headers.cookies[i].parts = 2
                    /\ headers.cookies[i].name = "session" }
    IN  IF headers.present /\ hits # {}
        THEN [ some |-> TRUE,
               value |-> headers.cookies[CHOOSE i \in hits :
                                           \A j \in hits : i <= j].value ]
        ELSE NoId

\* the password the stored Argon2 hash was made from
Password == "secret"

NoCookie == [ present |-> FALSE, session |-> 0, max_age |-> 0 ]

\* "session={}; Path=/; HttpOnly; SameSite=Strict; Max-Age={}"
SetCookie(id, age) == [ present |-> TRUE, session |-> id, max_age |-> age ]

\* login_handler up to create_session: parse the stored hash, verify
verify(cfg, password) ==
    IF cfg.password_hash = "malformed"
    THEN Err("Internal", "invalid password hash")
    ELSE IF cfg.password_hash = "unsupported"
    THEN Err("Internal", "password verification failed")
    ELSE IF password # Password THEN Err("Unauthorized", "")
    ELSE Ok(NoPath)

\* (the minutes taken as seconds)
ttl_seconds_unscaled(cfg) == cfg.session_timeout_minutes

\* session_timeout_minutes.saturating_mul(60), far below u64::MAX here
ttl_seconds(cfg) == cfg.session_timeout_minutes * 60

---------------------------------------------------------------------------
(* The watch socket (ws/system.rs): wire format and message handling.  The
   timestamp of a "change" message is wall-clock time and is not modelled. *)

\* a JSON text payload: the value of its "action" field and of its "path"
\* field ("" and NoField when the field is missing), or text that is not
\* JSON at all
NoField == [ present |-> FALSE, value |-> EmptyRel ]

JsonField(v) == [ present |-> TRUE, value |-> v ]

Json(a, p) == [ json |-> TRUE, action |-> a, path |-> p ]

NotJson == [ json |-> FALSE, action |-> "", path |-> NoField ]

\* (a parser that takes a request without a path as one for the root)
from_str_lenient(payload) ==
    IF payload.json /\ payload.action \in { "watch", "unwatch" }
    THEN [ ok |-> TRUE, action |-> payload.action, path |-> payload.path.value ]
    ELSE [ ok |-> FALSE, action |-> "", path |-> EmptyRel ]

\* serde_json::from_str::<SystemClientMessage>: the tag must be "watch" or
\* "unwatch" and the path must be there
from_str(payload) ==
    IF payload.json /\ payload.action \in { "watch", "unwatch" }
                    /\ payload.path.present
    THEN [ ok |-> TRUE, action |-> payload.action, path |-> payload.path.value ]
    ELSE [ ok |-> FALSE, action |-> "", path |-> EmptyRel ]

\* the messages sent to the client
Event(e, rel) == [ event |-> e, path |-> rel, message |-> "" ]

ErrorEvent(m) == [ event |-> "error", path |-> EmptyRel, message |-> m ]

\* send_json: the result of the send is dropped; a transport that is gone
\* carries nothing
send_json(st, value) ==
    IF st.open THEN [ st EXCEPT !.out = Append(@, value) ] ELSE st

\* send_error
send_error(st, message) == send_json(st, ErrorEvent(message))

\* the filesystem seen after the files in unl were deleted
exists_now(unl, r) ==
    IF r.ok /\ r.path \in unl
    THEN Err("Io", "No such file or directory") ELSE r

\* (a watch that records the subscription before it registers the path)
watch_message_eager(st, rootv, unl, path, registered) ==
    LET resolved == exists_now(unl, resolve_path(rootv, path))
        recorded == [ st EXCEPT
                        !.tracked = [ k \in DOMAIN @ \cup { resolved.path } |->
                                        IF k = resolved.path THEN path ELSE @[k] ] ]
    IN  IF ~st.watch_enabled
        THEN send_error(st, "file watching disabled")
        ELSE IF ~resolved.ok
        THEN send_error(st, "invalid path")
        ELSE IF st.watcher = "none"
        THEN send_error(st, "watcher unavailable")
        ELSE IF ~registered
        THEN send_error(recorded, "watch failed")
        ELSE send_json([ recorded EXCEPT !.watched = @ \cup { resolved.path } ],
                       Event("watching", path))

\* (a watch that keeps the string a path was first watched under)
watch_message_keep_first(st, rootv, unl, path, registered) ==
    LET resolved == exists_now(unl, resolve_path(rootv, path))
    IN  IF ~st.watch_enabled
        THEN send_error(st, "file watching disabled")
        ELSE IF ~resolved.ok
        THEN send_error(st, "invalid path")
        ELSE IF st.watcher = "none"
        THEN send_error(st, "watcher unavailable")
        ELSE IF ~registered
        THEN send_error(st, "watch failed")
        ELSE send_json(
               [ st EXCEPT
                   !.watched = @ \cup { resolved.path },
                   !.tracked = [ k \in DOMAIN @ \cup { resolved.path } |->
                                   IF k \in DOMAIN @ THEN @[k] ELSE path ] ],
               Event("watching", path))

\* the result of handle_client_message on the record st of the connection:
\* registered tells whether watcher.watch succeeds
watch_message(st, rootv, unl, path, registered) ==
    LET resolved == exists_now(unl, resolve_path(rootv, path))
    IN  IF ~st.watch_enabled
        THEN send_error(st, "file watching disabled")
        ELSE IF ~resolved.ok
        THEN send_error(st, "invalid path")
        ELSE IF st.watcher = "none"
        THEN send_error(st, "watcher unavailable")
        ELSE IF ~registered
        THEN send_error(st, "watch failed")
        ELSE send_json(
               [ st EXCEPT
                   !.watched = @ \cup { resolved.path },
                   !.tracked = [ k \in DOMAIN @ \cup { resolved.path } |->
                                   IF k = resolved.path THEN path ELSE @[k] ] ],
               Event("watching", path))

\* (an unwatch that forgets the subscription and leaves the path registered)
unwatch_message_forget(st, rootv, unl, path) ==
    LET resolved == exists_now(unl, resolve_path(rootv, path))
    IN  IF ~resolved.ok THEN st
        ELSE IF st.watcher = "none"
        THEN send_error(st, "watcher unavailable")
        ELSE send_json(
               [ st EXCEPT
                   !.tracked = [ k \in DOMAIN @ \ { resolved.path } |-> @[k] ] ],
               Event("unwatched", path))

\* (an unwatch that drops every subscription of the connection)
unwatch_message_all(st, rootv, unl, path) ==
    LET resolved == exists_now(unl, resolve_path(rootv, path))
    IN  IF ~resolved.ok THEN st
        ELSE IF st.watcher = "none"
        THEN send_error(st, "watcher unavailable")
        ELSE send_json([ st EXCEPT !.watched = {}, !.tracked = [ k \in {} |-> path ] ],
                       Event("unwatched", path))

\* (an unwatch that acknowledges and cancels nothing)
unwatch_message_ack_only(st, rootv, unl, path) ==
    LET resolved == exists_now(unl, resolve_path(rootv, path))
    IN  IF ~resolved.ok THEN st
        ELSE IF st.watcher = "none"
        THEN send_error(st, "watcher unavailable")
        ELSE send_json(st, Event("unwatched", path))

unwatch_message(st, rootv, unl, path) ==
    LET resolved == exists_now(unl, resolve_path(rootv, path))
    IN  IF ~resolved.ok THEN st
        ELSE IF st.watcher = "none"
        THEN send_error(st, "watcher unavailable")
        ELSE send_json(
               [ st EXCEPT
                   !.watched = IF resolved.path \in DOMAIN st.tracked
                               THEN @ \ { resolved.path } ELSE @,
                   !.tracked = [ k \in DOMAIN @ \ { resolved.path } |-> @[k] ] ],
               Event("unwatched", path))

handle_client_message(st, rootv, unl, payload, registered) ==
    LET msg == from_str(payload)
    IN  IF ~msg.ok
        THEN send_error(st, "invalid payload")
        ELSE IF msg.action = "watch"
        THEN watch_message(st, rootv, unl, msg.path, registered)
        ELSE unwatch_message(st, rootv, unl, msg.path)

\* (a choice that looks at the path as reported before its canonical form)
change_path_reported_first(tracked, rootv, unl, p) ==
    LET canonical == exists_now(unl, canonicalize(p))
        stripped == IF canonical.ok THEN to_relative(rootv, canonical.path)
                    ELSE NoRel
        plain == to_relative(rootv, p)
    IN  IF p \in DOMAIN tracked
        THEN [ some |-> TRUE, rel |-> tracked[p] ]
        ELSE IF plain.some
        THEN [ some |-> TRUE, rel |-> [ abs |-> FALSE, comps |-> plain.comps ] ]
        ELSE IF canonical.ok /\ canonical.path \in DOMAIN tracked
        THEN [ some |-> TRUE, rel |-> tracked[canonical.path] ]
        ELSE IF stripped.some
        THEN [ some |-> TRUE,
               rel |-> [ abs |-> FALSE, comps |-> stripped.comps ] ]
        ELSE [ some |-> FALSE, rel |-> EmptyRel ]

\* forward_event's choice of the string sent for the event path p
change_path(tracked, rootv, unl, p) ==
    LET canonical == exists_now(unl, canonicalize(p))
        stripped == IF canonical.ok THEN to_relative(rootv, canonical.path)
                    ELSE NoRel
        plain == to_relative(rootv, p)
    IN  IF canonical.ok /\ canonical.path \in DOMAIN tracked
        THEN [ some |-> TRUE, rel |-> tracked[canonical.path] ]
        ELSE IF stripped.some
        THEN [ some |-> TRUE,
               rel |-> [ abs |-> FALSE, comps |-> stripped.comps ] ]
        ELSE IF p \in DOMAIN tracked
        THEN [ some |-> TRUE, rel |-> tracked[p] ]
        ELSE IF plain.some
        THEN [ some |-> TRUE, rel |-> [ abs |-> FALSE, comps |-> plain.comps ] ]
        ELSE [ some |-> FALSE, rel |-> EmptyRel ]

\* forward_event: one "change" message for each path that has a string
RECURSIVE forward_event(_, _, _, _)
forward_event(tracked, rootv, unl, paths) ==
    IF paths = <<>> THEN <<>>
    ELSE LET rel == change_path(tracked, rootv, unl, Head(paths))
         IN  (IF rel.some THEN << Event("change", rel.rel) >> ELSE <<>>)
             \o forward_event(tracked, rootv, unl, Tail(paths))

---------------------------------------------------------------------------
(* The terminal wire format and the PTY (ws/terminal.rs, pty.rs) *)

Msg(t, d) == [ type |-> t, data |-> d ]

NoMsg == Msg("", <<>>)

\* what a client sends to type the bytes p, and to ask for rows x cols
EncodeInput(p) == << 1 >> \o p

EncodeResize(rows, cols) ==
    << 2, rows \div 256, rows % 256, cols \div 256, cols % 256 >>

\* (the two bytes taken in little-endian order)
from_le_bytes(hi, lo) == lo * 256 + hi

\* u16::from_be_bytes([hi, lo])
from_be_bytes(hi, lo) == hi * 256 + lo

max(a, b) == IF a >= b THEN a ELSE b

\* (rows and cols passed on as they come)
pty_size_unclamped(rows, cols) ==
    [ rows |-> rows, cols |-> cols, pixel_width |-> 0, pixel_height |-> 0 ]

\* PtySize { rows: rows.max(1), cols: cols.max(1), pixel_width: 0,
\* pixel_height: 0 }
pty_size(rows, cols) ==
    [ rows |-> max(rows, 1), cols |-> max(cols, 1), pixel_width |-> 0,
      pixel_height |-> 0 ]

\* (the whole frame, opcode included)
input_payload_whole(bytes) == bytes

\* &bytes[1..]
input_payload(bytes) == SubSeq(bytes, 2, Len(bytes))

\* (an opcode byte put before the bytes read)
output_frame_tagged(buffer) == Msg("Binary", << 1 >> \o buffer)

\* Message::Binary(buffer[..n].to_vec())
output_frame(buffer) == Msg("Binary", buffer)

NoAct == [ act |-> "none", data |-> <<>>, rows |-> 0, cols |-> 0 ]

\* the match of handle_socket's loop on one item of the receive stream
dispatch(msg) ==
    CASE msg.type = "Binary" /\ msg.data # <<>> ->
           ( CASE msg.data[1] = 1 ->
                    IF Len(msg.data) > 1
                    THEN [ NoAct EXCEPT !.act = "write",
                                        !.data = input_payload(msg.data) ]
                    ELSE NoAct
               [] msg.data[1] = 2 ->
                    IF Len(msg.data) >= 5
                    THEN [ NoAct EXCEPT
                             !.act = "resize",
                             !.rows = from_be_bytes(msg.data[2], msg.data[3]),
                             !.cols = from_be_bytes(msg.data[4], msg.data[5]) ]
                    ELSE NoAct
               [] OTHER -> NoAct )
      [] msg.type = "Close" -> [ NoAct EXCEPT !.act = "break" ]
      [] msg.type = "Ping" -> [ NoAct EXCEPT !.act = "pong", !.data = msg.data ]
      [] msg.type \in { "End", "Error" } -> [ NoAct EXCEPT !.act = "break" ]
      [] OTHER -> NoAct

NoPty == [ child |-> "none", stdin |-> <<>>, outbuf |-> <<>>, produced |-> <<>>,
           unread |-> 0,  \* the bytes written that the shell has not read
           size |-> pty_size_unclamped(0, 0) ]

---------------------------------------------------------------------------
VARIABLES
    root,       \* FsService.root: the canonical sandbox root
    call,       \* the resolver call or filesystem request in flight
    sessions,   \* SessionStore.inner: id -> expires_at
    now,        \* the monotonic clock (Instant::now())
    scall,      \* each caller's session-store call in flight
    issued,     \* history: id -> the instant its create_session read
    removed,    \* history: the ids a remove call has taken out of the store
    config,     \* Config, loaded once at startup
    http,       \* the HTTP request being served and its response
    term,       \* per terminal connection: handle_socket and its reader task
    ptys,       \* the PTY sessions the PtyManager has created
    sys,        \* the watch connection: handle_socket of ws/system.rs
    unlinked    \* the files deleted from the host filesystem since startup

fsVars == << root, call >>

sessVars == << sessions, now, scall, issued, removed >>

httpVars == << config, http >>

termVars == << term, ptys >>

watchVars == << sys, unlinked >>

vars == << root, call, sessions, now, scall, issued, removed, config, http,
           term, ptys, sys, unlinked >>

\* what the resolver's own actions leave alone
notFs == << sessVars, httpVars, termVars, watchVars >>

\* what the session store's own actions leave alone
notSess == << fsVars, httpVars, termVars, watchVars >>

\* what the terminal bridge's actions leave alone
notTerm == << fsVars, sessVars, httpVars, watchVars >>

\* what the watch socket's actions leave alone
notWatch == << fsVars, sessVars, httpVars, termVars >>

\* FsService::new(config.server.root_dir): the configured root, canonicalized
RootDir == [ abs |-> TRUE, comps |-> << "r" >> ]

StartupRoot == canonicalize(push(Cwd, RootDir)).path

IdleCall == [ pc |-> "idle", op |-> "", query |-> [ path |-> EmptyRel,
              show_hidden |-> FALSE ], root |-> <<>>, res |-> Ok(NoPath),
              resp |-> NoResp ]

\* the tasks that call into the session store concurrently
Callers == { "a", "b" }

IdleSCall == [ pc |-> "idle", op |-> "", id |-> 0, expires_at |-> 0,
               known |-> FALSE, begun |-> 0, ended |-> 0, result |-> FALSE,
               live |-> FALSE ]  \* history: at the sweep of this validate the
                                 \* entry of id was there with expires_at > now

EmptyMap == [ i \in {} |-> 0 ]

\* the configurations a run may be started with
Configs == { [ password_hash |-> h,
               session_timeout_minutes |-> SessionTimeoutMinutes,
               enable_watch |-> w ] :
             h \in { "valid", "malformed", "unsupported" }, w \in BOOLEAN }

DefaultConfig == [ password_hash |-> "valid",
                   session_timeout_minutes |-> SessionTimeoutMinutes,
                   enable_watch |-> TRUE ]

IdleHttp == [ pc |-> "idle", op |-> "",
              resp |-> NoResp, set_cookie |-> NoCookie,
              valid |-> FALSE,     \* history: the request carried a live session
              session_id |-> NoId ] \* history: the session id that
                                    \* auth_status or logout extracted

\* the terminal WebSockets a run may see
Conns == { "A", "B" }

PtyIds == { 1, 2 }

IdleTerm == [ pc |-> "idle",       \* handle_socket's position
              session |-> 0,       \* active_session: the PTY it owns
              inq |-> <<>>,        \* client messages not yet received
              nsent |-> 0,         \* how many the client has sent
              up |-> TRUE,         \* the client has not closed or failed
              open |-> TRUE,       \* the transport still carries frames
              out |-> <<>>,        \* the frames sent to the client
              lock |-> "none",     \* who holds the sender mutex
              pong |-> <<>>,       \* the Ping payload being answered
              rpc |-> "none",      \* the reader task's position
              rbuf |-> <<>>,       \* buffer[..n] of the reader task
              aborted |-> FALSE,   \* reader_task.abort() was called
              reads |-> <<>>,      \* history: the reads that returned n > 0
              typed |-> <<>>,      \* history: the bytes the client typed
              log |-> "" ]         \* history: what the last item made it log

IdleSys == [ pc |-> "idle",          \* handle_socket's position
             watch_enabled |-> FALSE, \* config.features.enable_watch, as read
             watcher |-> "none",      \* Option<RecommendedWatcher>
             watched |-> {},          \* the paths registered with the watcher
             tracked |-> EmptyMap,    \* canonical path -> the client's string
             inq |-> <<>>,            \* client messages not yet received
             nsent |-> 0,             \* how many the client has sent
             up |-> TRUE,             \* the client has not closed or failed
             open |-> TRUE,           \* the transport still carries frames
             events |-> <<>>,         \* event_rx: results not yet received
             nevents |-> 0,           \* how many the watcher has delivered
             out |-> <<>> ]           \* the text messages sent to the client

InitWith(cfg) ==
    /\ root = StartupRoot
    /\ call = IdleCall
    /\ sessions = EmptyMap
    /\ now = 0
    /\ scall = [ c \in Callers |-> IdleSCall ]
    /\ issued = EmptyMap
    /\ removed = {}
    /\ config = cfg
    /\ http = IdleHttp
    /\ term = [ c \in Conns |-> IdleTerm ]
    /\ ptys = [ p \in PtyIds |-> NoPty ]
    /\ sys = IdleSys
    /\ unlinked = {}

Init == InitWith(DefaultConfig)

\* the roots an administrator may ask for through POST /api/fs/root
NewRoots == { [ abs |-> TRUE, comps |-> c ] :
              c \in { << "etc" >>, << "box", "d" >>, << "r" >>, << "zz" >> } }

Query(rel, h) == [ path |-> rel, show_hidden |-> h ]

\* a call starts: `let root = self.root()` (fs.rs line 29)
Begin(op, q) ==
    /\ call.pc = "idle"
    /\ call' = [ IdleCall EXCEPT !.pc = "canon", !.op = op, !.query = q,
                                  !.root = root ]
    /\ UNCHANGED << root, notFs >>

ResolveCall(rel) == Begin("resolve", Query(rel, FALSE))

ListCall(rel, h) == Begin("list", Query(rel, h))

ContentCall(rel) == Begin("content", Query(rel, FALSE))

RawCall(rel) == Begin("raw", Query(rel, FALSE))

\* (a resolve_path that reads the root again for its containment check)
FsFinishRereading ==
    /\ call.pc = "canon"
    /\ call' = [ call EXCEPT
            !.pc = "done",
            !.res = LET relative == call.query.path
                        candidate == IF relative.comps # <<>> \/ relative.abs
                                     THEN push(call.root, relative) ELSE call.root
                        canonical == canonicalize(candidate)
                    IN  IF ~canonical.ok THEN canonical
                        ELSE IF ~starts_with(canonical.path, root)
                             THEN Err("BadRequest", "path escapes root_dir")
                        ELSE canonical,
            !.resp = NoResp ]
    /\ UNCHANGED << root, notFs >>

\* the rest of the call, on the root it read
FsFinish ==
    /\ call.pc = "canon"
    /\ call' = [ call EXCEPT
            !.pc = "done",
            !.res = resolve_path(call.root, call.query.path),
            !.resp = CASE call.op = "list" -> list_handler(call.root, call.query)
                       [] call.op = "content" -> content_handler(call.root, call.query)
                       [] call.op = "raw" -> raw_handler(call.root, call.query)
                       [] OTHER -> NoResp ]
    /\ UNCHANGED << root, notFs >>

\* the caller takes the result
FsReturn ==
    /\ call.pc = "done"
    /\ call' = IdleCall
    /\ UNCHANGED << root, notFs >>

\* FsService::set_root, from a concurrent change_root_handler
SetRootCall(new_root) ==
    LET canonical_root == set_root(new_root)
    IN  /\ root' = IF canonical_root.ok THEN canonical_root.path ELSE root
        /\ UNCHANGED << call, notFs >>

FsNext ==
    \/ \E rel \in Inputs : ResolveCall(rel)
    \/ \E rel \in Inputs, h \in BOOLEAN : ListCall(rel, h)
    \/ \E rel \in Inputs : ContentCall(rel)
    \/ \E rel \in Inputs : RawCall(rel)
    \/ FsFinish
    \/ FsReturn
    \/ \E nr \in NewRoots : SetRootCall(nr)

FsSpec == Init /\ [][FsNext]_vars

\* resolve_path alone against set_root
RootNext ==
    \/ \E rel \in Inputs : ResolveCall(rel)
    \/ FsFinish
    \/ FsReturn
    \/ \E nr \in NewRoots : SetRootCall(nr)

RootSpec == Init /\ [][RootNext]_vars

---------------------------------------------------------------------------
(* The session store under concurrent callers.  A write or read guard is
   held for one step; the awaits between them are where callers interleave. *)

\* the ids create_session has not drawn yet (Uuid::new_v4 is fresh)
FreshIds == { i \in SessionIds :
                /\ i \notin DOMAIN issued
                /\ \A c \in Callers : ~(scall[c].op = "create" /\ scall[c].id = i) }

\* create_session up to its await: the id and `Instant::now() + self.ttl`
CreateBegin(c) ==
    /\ scall[c].pc = "idle"
    /\ FreshIds # {}
    /\ LET id == CHOOSE i \in FreshIds : \A j \in FreshIds : i <= j
       IN  scall' = [ scall EXCEPT ![c] = [ IdleSCall EXCEPT
                        !.pc = "insert", !.op = "create", !.id = id,
                        !.expires_at = now + ttl, !.begun = now ] ]
    /\ UNCHANGED << notSess, sessions, now, issued, removed >>

\* create_session under the write guard: insert, and return the id
CreateInsert(c) ==
    /\ scall[c].pc = "insert"
    /\ sessions' = insert(sessions, scall[c].id, scall[c].expires_at)
    /\ issued' = insert(issued, scall[c].id, scall[c].begun)
    /\ scall' = [ scall EXCEPT ![c].pc = "done", ![c].ended = now ]
    /\ UNCHANGED << notSess, now, removed >>

\* validate up to its second await: prune_expired under the write guard
ValidatePrune(c, id) ==
    /\ scall[c].pc = "idle"
    /\ sessions' = prune_expired(sessions, now)
    /\ scall' = [ scall EXCEPT ![c] = [ IdleSCall EXCEPT
                     !.pc = "lookup", !.op = "validate", !.id = id,
                     !.known = (id \in DOMAIN issued), !.begun = now,
                     !.live = (id \in DOMAIN sessions /\ sessions[id] > now) ] ]
    /\ UNCHANGED << notSess, now, issued, removed >>

\* validate under the read guard: the lookup
ValidateLookup(c) ==
    /\ scall[c].pc = "lookup"
    /\ scall' = [ scall EXCEPT ![c].pc = "done", ![c].ended = now,
                                ![c].result = is_some(sessions, scall[c].id) ]
    /\ UNCHANGED << notSess, sessions, now, issued, removed >>

\* remove, whole under the write guard
Remove(c, id) ==
    /\ scall[c].pc = "idle"
    /\ sessions' = remove(sessions, id)
    /\ removed' = removed \cup ({ id } \cap DOMAIN sessions)
    /\ scall' = [ scall EXCEPT ![c] = [ IdleSCall EXCEPT
                     !.pc = "done", !.op = "remove", !.id = id,
                     !.begun = now, !.ended = now ] ]
    /\ UNCHANGED << notSess, now, issued >>

\* the caller takes the result
SessReturn(c) ==
    /\ scall[c].pc = "done"
    /\ scall' = [ scall EXCEPT ![c] = IdleSCall ]
    /\ UNCHANGED << notSess, sessions, now, issued, removed >>

\* a minute passes
Tick ==
    /\ now < MaxTicks
    /\ now' = now + 1
    /\ UNCHANGED << notSess, sessions, scall, issued, removed >>

SessNext ==
    \/ \E c \in Callers : CreateBegin(c)
    \/ \E c \in Callers : CreateInsert(c)
    \/ \E c \in Callers, id \in SessionIds : ValidatePrune(c, id)
    \/ \E c \in Callers : ValidateLookup(c)
    \/ \E c \in Callers, id \in SessionIds : Remove(c, id)
    \/ \E c \in Callers : SessReturn(c)
    \/ Tick

SessSpec == Init /\ [][SessNext]_vars

---------------------------------------------------------------------------
(* Claims about the resolver, under FsSpec *)

Finished == call.pc = "done"

\* a real filesystem node: no component of it is a symbolic link, "." or ".."
IsCanonical(p) == p \in Dirs \cup Files

\* C1: every finished resolve_path call either failed or returned a
\* canonical, symlink-resolved path that is the sandbox root it read or a
\* descendant of it, whatever the input ("..", an absolute path, a link
\* inside the root that points outside); a handler serves a body only from
\* such a path.
C1_SandboxContainment ==
    Finished =>
        /\ call.res.ok =>
              /\ IsCanonical(call.res.path)
              /\ IsPrefix(call.root, call.res.path)
        /\ ~call.res.ok => call.res.path = NoPath
        /\ call.resp.status = 200 => call.res.ok

\* C1 witness: an input with ".." in it, or one that goes through a link,
\* has been resolved to a path inside the root
C1_Witness ==
    /\ Finished
    /\ call.res.ok
    /\ \E i \in 1..Len(call.query.path.comps) :
          call.query.path.comps[i] \in { "..", "in" }

\* the joined path exists and its canonical form is outside the root read
Escapes ==
    LET canonical == canonicalize(IF call.query.path = EmptyRel THEN call.root
                                  ELSE push(call.root, call.query.path))
    IN  canonical.ok /\ ~IsPrefix(call.root, canonical.path)

\* C10 as stated: an escaping path fails with BadRequest("path escapes
\* root"), answered 400 with no file content.
C10_Original ==
    Finished /\ Escapes =>
        /\ call.res = Err("BadRequest", "path escapes root")
        /\ call.op \in { "list", "content", "raw" } =>
              /\ call.resp.status = 400
              /\ call.resp.body = NoBody

\* C10 amended: an existing path whose canonical form is outside the root
\* fails with BadRequest("path escapes root_dir"); a handler answers it 400
\* with the error text "bad request: path escapes root_dir" and no content.
C10_EscapeError ==
    Finished /\ Escapes =>
        /\ call.res = Err("BadRequest", "path escapes root_dir")
        /\ call.op \in { "list", "content", "raw" } =>
              /\ call.resp.status = 400
              /\ call.resp.error = "bad request: path escapes root_dir"
              /\ call.resp.body = NoBody

\* C10 witness: GET /api/fs/content?path=../etc has been answered, with the
\* root still the startup root
C10_Witness ==
    /\ Finished
    /\ call.op = "content"
    /\ call.root = StartupRoot
    /\ call.query.path = [ abs |-> FALSE, comps |-> << "..", "etc" >> ]
    /\ call.resp.status = 400

\* the path resolve_path joins from the root it read and the request's path
Joined ==
    IF call.query.path = EmptyRel THEN call.root
    ELSE push(call.root, call.query.path)

\* the joined path does not name anything in the filesystem
Missing == ~canonicalize(Joined).ok

\* C11 as stated: whenever the joined path does not exist, resolve_path
\* fails with the IO not-found error and returns no path, and a handler
\* answers 500.
C11_Original ==
    Finished /\ Missing =>
        /\ call.res = Err("Io", "No such file or directory")
        /\ call.op \in { "list", "content", "raw" } =>
              call.resp.status = 500

\* C11 amended: whenever the joined path does not exist, resolve_path fails
\* with an IO error and returns no path: not-found, or not-a-directory when
\* the path goes through a regular file; a handler answers 500 with that
\* error's text and no content.
C11_MissingTarget ==
    Finished /\ Missing =>
        /\ ~call.res.ok
        /\ call.res.path = NoPath
        /\ call.res.kind = "Io"
        /\ call.res.msg \in { "No such file or directory", "Not a directory" }
        /\ call.res.msg = "Not a directory" =>
              \E i \in 1..(Len(Joined) - 1) :
                  canonicalize(SubSeq(Joined, 1, i)).ok
                  /\ canonicalize(SubSeq(Joined, 1, i)).path \in Files
        /\ call.op \in { "list", "content", "raw" } =>
              /\ call.resp.status = 500
              /\ call.resp.error = "io error: " \o call.res.msg
              /\ call.resp.body = NoBody

\* C11 witness: a content request for a name that is not in the root has
\* been answered 500
C11_Witness ==
    /\ Finished
    /\ call.op = "content"
    /\ call.root = StartupRoot
    /\ call.query.path = [ abs |-> FALSE, comps |-> << "passwd" >> ]
    /\ call.resp.status = 500
    /\ call.res.msg = "No such file or directory"

\* C12: whenever resolve_path returns P, to_relative(P) is some string, and
\* resolve_path of that string, against the same root, returns the same P.
C12_ResolveIdempotent ==
    Finished /\ call.res.ok =>
        LET rel == to_relative(call.root, call.res.path)
        IN  /\ rel.some
            /\ resolve_path(call.root, [ abs |-> FALSE, comps |-> rel.comps ])
                  = call.res

---------------------------------------------------------------------------
(* Claims about the session store, under SessSpec *)

\* caller c has finished a validate of a token that create_session had
\* returned before the call was made
Validated(c) ==
    /\ scall[c].pc = "done"
    /\ scall[c].op = "validate"
    /\ scall[c].known

\* C3 as stated: a validate call made, start to end, strictly before
\* t0 + ttl returns true, and one made strictly after returns false.
C3_Original ==
    \A c \in Callers : Validated(c) =>
        LET t0 == issued[scall[c].id]
        IN  /\ scall[c].ended < t0 + ttl => scall[c].result
            /\ scall[c].begun > t0 + ttl => ~scall[c].result

\* C3 amended: for a token that no remove call (logout) has removed, a
\* validate call made strictly before t0 + ttl returns true; for any token,
\* a validate call made strictly after t0 + ttl returns false.
C3_SessionTtl ==
    \A c \in Callers : Validated(c) =>
        LET t0 == issued[scall[c].id]
        IN  /\ (scall[c].ended < t0 + ttl /\ scall[c].id \notin removed)
                  => scall[c].result
            /\ scall[c].begun > t0 + ttl => ~scall[c].result

\* C3 witness: one finished validate answered true before the expiry and
\* another answered false after it
C3_Witness ==
    \E c, d \in Callers :
        /\ Validated(c) /\ Validated(d)
        /\ scall[c].id \notin removed
        /\ scall[c].ended < issued[scall[c].id] + ttl
        /\ scall[c].result
        /\ scall[d].begun > issued[scall[d].id] + ttl
        /\ ~scall[d].result


---------------------------------------------------------------------------
(* The terminal WebSocket bridge: handle_socket (the connection task), the
   reader task it spawns, the client, and the shell behind the PTY. *)

PayloadBytes == { 7, 9 }

OutBytes == { 5, 6 }

\* the stdin payloads a client puts in one frame
Payloads == SeqsUpTo(PayloadBytes, 2)

\* the terminal sizes a client asks for
Dims == { 0, 24, 258 }

\* other things a client may send: frames with an unknown opcode, resize
\* frames that are too short or longer than needed, and the other message types
OtherMsgs ==
    { Msg("Binary", d) : d \in { <<>>, << 3, 7 >>, << 2 >>,
                                 << 2, 0, 24, 0 >>, << 2, 0, 24, 0, 80, 9 >> } }
    \cup { Msg("Text", << 7 >>), Msg("Ping", << 7 >>),
           Msg("Close", <<>>), Msg("Error", <<>>), Msg("End", <<>>) }

\* `buffer`'s length in spawn_reader_task
BufferSize == 4096

Min(a, b) == IF a <= b THEN a ELSE b

Pty(c) == ptys[term[c].session]

\* PtyManager::create_session(rows, cols): a new PTY of that size with the
\* shell running on its slave side
create_session(rows, cols) ==
    [ NoPty EXCEPT !.child = "running", !.size = pty_size(rows, cols) ]

FreePtys == { p \in PtyIds : ptys[p].child = "none" }

\* (an accept that hands every connection the first PTY)
accept_shared(c, created) ==
    /\ term[c].pc = "idle"
    /\ IF created
       THEN /\ ptys' = [ ptys EXCEPT ![1] = IF @.child = "none"
                                            THEN create_session(24, 80) ELSE @ ]
            /\ term' = [ term EXCEPT ![c].pc = "loop", ![c].session = 1,
                                     ![c].rpc = "read" ]
       ELSE /\ term' = [ term EXCEPT ![c].pc = "done",
                                     ![c].out = << Msg("Close", <<>>) >> ]
            /\ UNCHANGED ptys

\* (a handler that returns without a close frame when no PTY can be created)
accept_silent(c, created) ==
    /\ term[c].pc = "idle"
    /\ IF created
       THEN /\ FreePtys # {}
            /\ LET p == CHOOSE q \in FreePtys : \A r \in FreePtys : q <= r
               IN  /\ ptys' = [ ptys EXCEPT ![p] = create_session(24, 80) ]
                   /\ term' = [ term EXCEPT ![c].pc = "loop",
                                            ![c].session = p,
                                            ![c].rpc = "read" ]
       ELSE /\ term' = [ term EXCEPT ![c].pc = "done" ]
            /\ UNCHANGED ptys

\* handle_socket up to its loop: create_session(24, 80) and spawn_reader_task,
\* or a Close frame and return when the PTY cannot be created
accept(c, created) ==
    /\ term[c].pc = "idle"
    /\ IF created
       THEN /\ FreePtys # {}
            /\ LET p == CHOOSE q \in FreePtys : \A r \in FreePtys : q <= r
               IN  /\ ptys' = [ ptys EXCEPT ![p] = create_session(24, 80) ]
                   /\ term' = [ term EXCEPT ![c].pc = "loop",
                                            ![c].session = p,
                                            ![c].rpc = "read" ]
       ELSE /\ term' = [ term EXCEPT ![c].pc = "done",
                                     ![c].out = << Msg("Close", <<>>) >> ]
            /\ UNCHANGED ptys

TermAccept(c, created) == accept(c, created) /\ UNCHANGED notTerm

\* the client sends m; typing is what it adds to the bytes typed so far
send(c, m, typing) ==
    /\ term[c].pc # "idle"
    /\ term[c].up
    /\ term[c].nsent < MaxMsgs
    /\ term' = [ term EXCEPT
           ![c].inq = Append(@, m),
           ![c].nsent = @ + 1,
           ![c].typed = @ \o typing,
           ![c].up = m.type \notin { "Close", "Error", "End" },
           ![c].open = m.type \notin { "Error", "End" } ]
    /\ UNCHANGED << ptys, notTerm >>

ClientType(c, p) == send(c, Msg("Binary", EncodeInput(p)), p)

ClientResize(c, rows, cols) ==
    send(c, Msg("Binary", EncodeResize(rows, cols)), <<>>)

ClientOther(c, m) == send(c, m, <<>>)

\* the client closes the WebSocket (a Close frame), or the transport fails
\* or ends, after whatever it has sent
ClientLeave(c, m) ==
    /\ term[c].pc # "idle"
    /\ term[c].up
    /\ m.type \in { "Close", "Error", "End" }
    /\ term' = [ term EXCEPT
           ![c].inq = Append(@, m),
           ![c].up = FALSE,
           ![c].open = m.type = "Close" ]
    /\ UNCHANGED << ptys, notTerm >>

\* the loop takes the next item of the receive stream
Receiving(c) ==
    /\ term[c].pc = "loop"
    /\ term[c].inq # <<>>

Next_msg(c) == Head(term[c].inq)

\* (a loop that gives up the connection when a write fails)
RecvInputBreaking(c, written) ==
    /\ Receiving(c)
    /\ dispatch(Next_msg(c)).act = "write"
    /\ written \/ Pty(c).child # "running"
    /\ written =>
          Pty(c).unread + Len(dispatch(Next_msg(c)).data) <= PtyCapacity
    /\ ptys' = [ ptys EXCEPT
           ![term[c].session].stdin =
               IF written THEN @ \o dispatch(Next_msg(c)).data ELSE @,
           ![term[c].session].unread =
               IF written THEN @ + Len(dispatch(Next_msg(c)).data) ELSE @ ]
    /\ term' = [ term EXCEPT
           ![c].inq = Tail(@),
           ![c].pc = IF written THEN @ ELSE "shutdown",
           ![c].log = IF written THEN "" ELSE "pty write failed" ]
    /\ UNCHANGED notTerm

\* PtySession::write of a 0x01 frame's payload: write_all and flush, inside
\* block_in_place.  The write returns when the PTY has taken the whole
\* payload, and blocks while there is no room for it.  With the shell gone
\* the write may fail; the error is logged and the loop goes on.
RecvInput(c, written) ==
    /\ Receiving(c)
    /\ dispatch(Next_msg(c)).act = "write"
    /\ written \/ Pty(c).child # "running"
    /\ written =>
          Pty(c).unread + Len(dispatch(Next_msg(c)).data) <= PtyCapacity
    /\ ptys' = [ ptys EXCEPT
           ![term[c].session].stdin =
               IF written THEN @ \o dispatch(Next_msg(c)).data ELSE @,
           ![term[c].session].unread =
               IF written THEN @ + Len(dispatch(Next_msg(c)).data) ELSE @ ]
    /\ term' = [ term EXCEPT
           ![c].inq = Tail(@),
           ![c].log = IF written THEN "" ELSE "pty write failed" ]
    /\ UNCHANGED notTerm

\* PtySession::resize of a 0x02 frame
RecvResize(c, resized) ==
    /\ Receiving(c)
    /\ dispatch(Next_msg(c)).act = "resize"
    /\ resized \/ Pty(c).child # "running"
    /\ ptys' = [ ptys EXCEPT ![term[c].session].size =
                   IF resized
                   THEN pty_size(dispatch(Next_msg(c)).rows,
                                 dispatch(Next_msg(c)).cols)
                   ELSE @ ]
    /\ term' = [ term EXCEPT
           ![c].inq = Tail(@),
           ![c].log = IF resized THEN "" ELSE "pty resize failed" ]
    /\ UNCHANGED notTerm

\* a Ping: the loop waits for the sender mutex
RecvPing(c) ==
    /\ Receiving(c)
    /\ dispatch(Next_msg(c)).act = "pong"
    /\ term' = [ term EXCEPT
           ![c].inq = Tail(@), ![c].log = "",
           ![c].pong = dispatch(Next_msg(c)).data, ![c].pc = "pong_lock" ]
    /\ UNCHANGED << ptys, notTerm >>

\* (a handler that takes the sender without waiting for it)
PongLockBarging(c) ==
    /\ term[c].pc = "pong_lock"
    /\ term' = [ term EXCEPT ![c].lock = "conn", ![c].pc = "pong_send" ]
    /\ UNCHANGED << ptys, notTerm >>

\* sender.lock().await of the Ping arm
PongLock(c) ==
    /\ term[c].pc = "pong_lock"
    /\ term[c].lock = "none"
    /\ term' = [ term EXCEPT ![c].lock = "conn", ![c].pc = "pong_send" ]
    /\ UNCHANGED << ptys, notTerm >>

\* send(Message::Pong(payload)), its error dropped
PongSend(c) ==
    /\ term[c].pc = "pong_send"
    /\ term' = [ term EXCEPT
           ![c].out = IF term[c].open THEN Append(@, Msg("Pong", term[c].pong))
                      ELSE @,
           ![c].lock = "none", ![c].pong = <<>>, ![c].pc = "loop" ]
    /\ UNCHANGED << ptys, notTerm >>

\* a Close frame, a transport error or the end of the stream ends the loop
RecvBreak(c) ==
    /\ Receiving(c)
    /\ dispatch(Next_msg(c)).act = "break"
    /\ term' = [ term EXCEPT
           ![c].inq = Tail(@), ![c].log = "",
           ![c].pc = "shutdown" ]
    /\ UNCHANGED << ptys, notTerm >>

\* anything else is dropped
RecvIgnored(c) ==
    /\ Receiving(c)
    /\ dispatch(Next_msg(c)).act = "none"
    /\ term' = [ term EXCEPT
           ![c].inq = Tail(@), ![c].log = "" ]
    /\ UNCHANGED << ptys, notTerm >>

\* (a shutdown that leaves the child alone)
ShutdownWithoutKill(c) ==
    /\ term[c].pc = "shutdown"
    /\ term' = [ term EXCEPT ![c].pc = "abort" ]
    /\ UNCHANGED << ptys, notTerm >>

\* PtySession::shutdown: child.kill(), its error dropped
Shutdown(c) ==
    /\ term[c].pc = "shutdown"
    /\ ptys' = [ ptys EXCEPT ![term[c].session].child =
                   IF @ = "running" THEN "killed" ELSE @ ]
    /\ term' = [ term EXCEPT ![c].pc = "abort" ]
    /\ UNCHANGED notTerm

\* reader_task.abort(), and handle_socket returns
AbortReader(c) ==
    /\ term[c].pc = "abort"
    /\ term' = [ term EXCEPT ![c].pc = "done", ![c].aborted = TRUE ]
    /\ UNCHANGED << ptys, notTerm >>

\* the reader task: reader.read(&mut buffer) returns n > 0 bytes
ReaderRead(c, n) ==
    /\ term[c].rpc = "read"
    /\ n \in 1..Min(Len(Pty(c).outbuf), BufferSize)
    /\ ptys' = [ ptys EXCEPT ![term[c].session].outbuf =
                   SubSeq(@, n + 1, Len(@)) ]
    /\ term' = [ term EXCEPT
           ![c].rbuf = SubSeq(Pty(c).outbuf, 1, n),
           ![c].reads = Append(@, SubSeq(Pty(c).outbuf, 1, n)),
           ![c].rpc = "lock_data" ]
    /\ UNCHANGED notTerm

\* read returns 0: the shell is gone and its output has been read
ReaderEof(c) ==
    /\ term[c].rpc = "read"
    /\ Pty(c).child # "running"
    /\ Pty(c).outbuf = <<>>
    /\ term' = [ term EXCEPT ![c].rpc = "lock_close" ]
    /\ UNCHANGED << ptys, notTerm >>

\* read returns an error: logged, and the task ends
ReaderErr(c) ==
    /\ term[c].rpc = "read"
    /\ term' = [ term EXCEPT ![c].rpc = "done" ]
    /\ UNCHANGED << ptys, notTerm >>

\* sender.lock().await
ReaderLock(c) ==
    /\ term[c].rpc \in { "lock_data", "lock_close" }
    /\ term[c].lock = "none"
    /\ term' = [ term EXCEPT
           ![c].lock = "reader",
           ![c].rpc = IF @ = "lock_data" THEN "send_data" ELSE "send_close" ]
    /\ UNCHANGED << ptys, notTerm >>

\* guard.send(Message::Binary(..)): the task ends if the send fails
ReaderSendData(c) ==
    /\ term[c].rpc = "send_data"
    /\ term' = [ term EXCEPT
           ![c].out = IF term[c].open
                      THEN Append(@, output_frame(term[c].rbuf)) ELSE @,
           ![c].rpc = IF term[c].open THEN "read" ELSE "done",
           ![c].rbuf = <<>>, ![c].lock = "none" ]
    /\ UNCHANGED << ptys, notTerm >>

\* guard.send(Message::Close(None)), its error dropped, and the task ends
ReaderSendClose(c) ==
    /\ term[c].rpc = "send_close"
    /\ term' = [ term EXCEPT
           ![c].out = IF term[c].open THEN Append(@, Msg("Close", <<>>))
                      ELSE @,
           ![c].rpc = "done", ![c].lock = "none" ]
    /\ UNCHANGED << ptys, notTerm >>

\* an aborted task is dropped at an await: the buffer and the guard go with it
ReaderCancelled(c) ==
    /\ term[c].aborted
    /\ term[c].rpc \in { "lock_data", "lock_close", "send_data", "send_close" }
    /\ term' = [ term EXCEPT
           ![c].rpc = "aborted", ![c].rbuf = <<>>,
           ![c].lock = IF @ = "reader" THEN "none" ELSE @ ]
    /\ UNCHANGED << ptys, notTerm >>

\* the shell writes a byte to its terminal
ShellOutput(p, b) ==
    /\ ptys[p].child = "running"
    /\ Len(ptys[p].produced) < MaxOut
    /\ ptys' = [ ptys EXCEPT ![p].outbuf = Append(@, b),
                             ![p].produced = Append(@, b) ]
    /\ UNCHANGED << term, notTerm >>

\* the shell reads what was typed to it
ShellRead(p) ==
    /\ ptys[p].child = "running"
    /\ ptys[p].unread > 0
    /\ ptys' = [ ptys EXCEPT ![p].unread = 0 ]
    /\ UNCHANGED << term, notTerm >>

\* the shell exits of its own accord
ChildExit(p) ==
    /\ ptys[p].child = "running"
    /\ ptys' = [ ptys EXCEPT ![p].child = "exited" ]
    /\ UNCHANGED << term, notTerm >>

\* handle_socket once the connection is accepted
ConnStep(c) ==
    \/ \E written \in BOOLEAN : RecvInput(c, written)
    \/ \E resized \in BOOLEAN : RecvResize(c, resized)
    \/ RecvPing(c)
    \/ PongLock(c)
    \/ PongSend(c)
    \/ RecvBreak(c)
    \/ RecvIgnored(c)
    \/ Shutdown(c)
    \/ AbortReader(c)

\* a session: a shell that types back, and a client that types, resizes,
\* pings and leaves
TermNext ==
    \/ \E created \in BOOLEAN : TermAccept("A", created)
    \/ \E p \in { <<>>, << 7 >>, << 9, 7 >> } : ClientType("A", p)
    \/ ClientResize("A", 0, 258)
    \/ \E m \in { Msg("Ping", << 7 >>), Msg("Close", <<>>), Msg("End", <<>>) } :
          ClientOther("A", m)
    \/ ConnStep("A")
    \/ \E n \in 1..MaxOut : ReaderRead("A", n)
    \/ ReaderEof("A")
    \/ ReaderErr("A")
    \/ ReaderLock("A")
    \/ ReaderSendData("A")
    \/ ReaderSendClose("A")
    \/ ReaderCancelled("A")
    \/ \E p \in PtyIds, b \in OutBytes : ShellOutput(p, b)
    \/ \E p \in PtyIds : ShellRead(p)
    \/ \E p \in PtyIds : ChildExit(p)

TermSpec == Init /\ [][TermNext]_vars

\* the steps of the reader task
ReaderStep(c) ==
    \/ \E n \in 1..MaxOut : ReaderRead(c, n)
    \/ ReaderEof(c)
    \/ ReaderLock(c)
    \/ ReaderSendData(c)
    \/ ReaderSendClose(c)
    \/ ReaderCancelled(c)

\* the end of a connection: a client that types and then leaves, a shell
\* that may read what is typed, print, or exit, and a PTY read that may fail
LiveNext ==
    \/ TermAccept("A", TRUE)
    \/ \E p \in { <<>>, << 7 >>, << 9, 7 >> } : ClientType("A", p)
    \/ ClientResize("A", 24, 80)
    \/ ClientOther("A", Msg("Ping", << 7 >>))
    \/ \E m \in { Msg("Close", <<>>), Msg("Error", <<>>) } : ClientLeave("A", m)
    \/ ConnStep("A")
    \/ ReaderStep("A")
    \/ ReaderErr("A")
    \/ \E p \in PtyIds : ShellOutput(p, 5)
    \/ \E p \in PtyIds : ShellRead(p)
    \/ \E p \in PtyIds : ChildExit(p)

\* the runtime runs every task that can take a step: the connection task
\* and the reader task are not starved; nothing is assumed of the client or
\* of the shell
LiveSpec ==
    /\ Init /\ [][LiveNext]_vars
    /\ WF_vars(ConnStep("A"))
    /\ WF_vars(ReaderStep("A"))

\* the two tasks of a connection around the sender: a client that types,
\* resizes, pings and closes, a shell that prints and may exit, and the
\* same scheduling
LockNext ==
    \/ TermAccept("A", TRUE)
    \/ \E p \in { <<>>, << 7 >> } : ClientType("A", p)
    \/ ClientResize("A", 24, 80)
    \/ ClientOther("A", Msg("Ping", << 7 >>))
    \/ ClientLeave("A", Msg("Close", <<>>))
    \/ ConnStep("A")
    \/ ReaderStep("A")
    \/ \E p \in PtyIds : ShellOutput(p, 5)
    \/ \E p \in PtyIds : ChildExit(p)

LockSpec ==
    /\ Init /\ [][LockNext]_vars
    /\ WF_vars(ConnStep("A"))
    /\ WF_vars(ReaderStep("A"))

\* two terminal connections side by side: each client types bytes of its
\* own, each shell prints bytes of its own
PairNext ==
    \/ \E c \in Conns : TermAccept(c, TRUE)
    \/ ClientType("A", << 7 >>)
    \/ ClientType("B", << 9 >>)
    \/ \E c \in Conns : RecvInput(c, TRUE)
    \/ \E c \in Conns, n \in 1..MaxOut : ReaderRead(c, n)
    \/ \E c \in Conns : ReaderLock(c)
    \/ \E c \in Conns : ReaderSendData(c)
    \/ \E p \in PtyIds : ShellOutput(p, 4 + p)

PairSpec == Init /\ [][PairNext]_vars

\* the dispatch of every kind of client frame, behind a shell that prints
\* nothing
FrameNext ==
    \/ TermAccept("A", TRUE)
    \/ \E p \in Payloads : ClientType("A", p)
    \/ \E rows \in Dims, cols \in Dims : ClientResize("A", rows, cols)
    \/ \E m \in OtherMsgs : ClientOther("A", m)
    \/ ConnStep("A")
    \/ ReaderEof("A")
    \/ ReaderLock("A")
    \/ ReaderSendClose("A")
    \/ ReaderCancelled("A")
    \/ \E p \in PtyIds : ShellRead(p)
    \/ \E p \in PtyIds : ChildExit(p)

FrameSpec == Init /\ [][FrameNext]_vars


---------------------------------------------------------------------------
(* Claims about the terminal bridge, under TermSpec and FrameSpec *)

RECURSIVE Flatten(_)
Flatten(ss) == IF ss = <<>> THEN <<>> ELSE Head(ss) \o Flatten(Tail(ss))

\* what the client typed in frame m: the bytes after the opcode 0x01
TypedIn(m) ==
    IF m.type = "Binary" /\ m.data # <<>> /\ m.data[1] = 1
    THEN Tail(m.data) ELSE <<>>

RECURSIVE TypedPending(_)
TypedPending(q) ==
    IF q = <<>> THEN <<>> ELSE TypedIn(Head(q)) \o TypedPending(Tail(q))

\* C5: on a terminal connection whose shell is running, the bytes the PTY
\* has received followed by the payloads of the 0x01 frames still in flight
\* are exactly the bytes the client typed, in the order it typed them:
\* payloads reach the PTY in arrival order, complete and unmodified,
\* whatever the reader task does meanwhile.
C5_InputOrder ==
    \A c \in Conns :
        (term[c].session # 0 /\ Pty(c).child = "running") =>
            Pty(c).stdin \o TypedPending(term[c].inq) = term[c].typed

\* C5 witness: two payloads have been written while the reader task was
\* sending output
C5_Witness ==
    /\ term["A"].session # 0
    /\ Pty("A").child = "running"
    /\ Pty("A").stdin = << 7, 9, 7 >>
    /\ term["A"].inq = <<>>
    /\ term["A"].rpc = "send_data"

IsBinary(m) == m.type = "Binary"

\* the contents of the binary frames sent to the client, in order
SentChunks(c) ==
    LET bin == SelectSeq(term[c].out, IsBinary)
    IN  [ i \in 1..Len(bin) |-> bin[i].data ]

\* C6: the binary frames sent are, one for one and in order, the PTY reads
\* that returned bytes, each frame exactly the bytes of its read; only the
\* last read may still be unsent (in the reader's hands, or lost with a
\* connection that ended); the reads are the shell's output in order, so
\* the frames sent concatenate to a prefix of it.
C6_OutputOneToOne ==
    \A c \in Conns : term[c].session # 0 =>
        LET sent == SentChunks(c)
            reads == term[c].reads
        IN  /\ Len(sent) <= Len(reads)
            /\ Len(reads) <= Len(sent) + 1
            /\ \A i \in 1..Len(sent) : sent[i] = reads[i]
            /\ term[c].rpc = "read" => sent = reads
            /\ term[c].rpc \in { "lock_data", "send_data" } =>
                  reads = Append(sent, term[c].rbuf)
            /\ Flatten(reads) \o Pty(c).outbuf = Pty(c).produced
            /\ IsPrefix(Flatten(sent), Pty(c).produced)

\* C6 witness: two reads, two frames
C6_Witness ==
    /\ Len(term["A"].reads) = 2
    /\ Len(SentChunks("A")) = 2

HasClose(c) == \E i \in 1..Len(term[c].out) : term[c].out[i].type = "Close"

\* C7: when the shell has exited on a connection that is still open and
\* the reader task, the only sender of that frame, has ended, the client
\* has been sent a Close frame.
C7_CloseOnExit ==
    \A c \in Conns :
        ( /\ term[c].session # 0
          /\ Pty(c).child = "exited"
          /\ term[c].up
          /\ term[c].rpc = "done" ) => HasClose(c)

\* the loop of connection c takes the item at the head of its stream
Takes(c) ==
    /\ Receiving(c)
    /\ term'[c].inq = Tail(term[c].inq)

\* the 16-bit big-endian field at bytes i, i+1 of a frame (0-based i)
Field(data, i) == data[i + 1] * 256 + data[i + 2]

AtLeast1(n) == IF n = 0 THEN 1 ELSE n

SizeOf(c) == ptys[term[c].session].size

\* C8: a 0x02 frame of five bytes or more is applied, while the shell
\* runs, as the size (max(rows,1), max(cols,1)) with zero pixel dimensions
\* and without an error; a shorter 0x02 frame changes no PTY, sends
\* nothing, and leaves the connection in its loop.
C8_ResizeTotal ==
    [][ \A c \in Conns :
          ( /\ Takes(c)
            /\ Next_msg(c).type = "Binary"
            /\ Next_msg(c).data # <<>>
            /\ Next_msg(c).data[1] = 2 ) =>
          LET data == Next_msg(c).data
          IN  /\ term'[c].pc = "loop"
              /\ term'[c].out = term[c].out
              /\ term'[c].lock = term[c].lock
              /\ IF Len(data) >= 5
                 THEN Pty(c).child = "running" =>
                        /\ term'[c].log = ""
                        /\ SizeOf(c)' = [ rows |-> AtLeast1(Field(data, 1)),
                                          cols |-> AtLeast1(Field(data, 3)),
                                          pixel_width |-> 0,
                                          pixel_height |-> 0 ]
                 ELSE /\ ptys' = ptys
                      /\ term'[c].log = ""
      ]_vars

\* C8 witness: a resize to 0 x 258 has been applied as 1 x 258
C8_Witness ==
    /\ term["A"].session # 0
    /\ Pty("A").child = "running"
    /\ Pty("A").size = [ rows |-> 1, cols |-> 258, pixel_width |-> 0,
                         pixel_height |-> 0 ]

\* C9: while the shell runs, a binary frame that starts with 0x01 appends
\* exactly bytes[1..] to the PTY's input and resizes nothing; one that
\* starts with 0x02 and has five bytes or more sets the size from
\* rows = bytes[1]*256 + bytes[2], cols = bytes[3]*256 + bytes[4] and writes
\* nothing; a frame with another first byte, an empty frame and a text
\* frame change no PTY; and the connection stays in its loop.
C9_OpcodeDispatch ==
    [][ \A c \in Conns :
          ( /\ Takes(c)
            /\ Next_msg(c).type \in { "Binary", "Text" }
            /\ Pty(c).child = "running" ) =>
          LET m == Next_msg(c)
              data == m.data
              p == term[c].session
          IN  /\ term'[c].pc = "loop"
              /\ IF m.type = "Binary" /\ data # <<>> /\ data[1] = 1
                 THEN /\ ptys'[p].stdin = ptys[p].stdin \o Tail(data)
                      /\ ptys'[p].size = ptys[p].size
                 ELSE IF m.type = "Binary" /\ data # <<>> /\ data[1] = 2
                 THEN /\ ptys'[p].stdin = ptys[p].stdin
                      /\ Len(data) >= 5 =>
                           /\ ptys'[p].size.rows = AtLeast1(Field(data, 1))
                           /\ ptys'[p].size.cols = AtLeast1(Field(data, 3))
                 ELSE ptys' = ptys
      ]_vars

\* C9 witness: a payload has been written and a resize to 258 rows applied
C9_Witness ==
    /\ term["A"].session # 0
    /\ Pty("A").stdin = << 7, 9 >>
    /\ Pty("A").size.rows = 258
    /\ Pty("A").size.cols = 24


---------------------------------------------------------------------------
(* The watch socket: handle_socket of ws/system.rs, its client, the platform
   watcher and the host filesystem *)

\* handle_socket up to its loop: created tells whether
\* RecommendedWatcher::new succeeds
\* (a setup that creates the watcher whatever the configuration says)
watch_accept_unconfigured(created) ==
    /\ sys.pc = "idle"
    /\ sys' = [ IdleSys EXCEPT !.pc = "loop", !.watch_enabled = TRUE,
                               !.watcher = "some" ]

watch_accept(created) ==
    /\ sys.pc = "idle"
    /\ sys' = IF ~config.enable_watch
              THEN [ IdleSys EXCEPT !.pc = "loop" ]
              ELSE IF created
              THEN [ IdleSys EXCEPT !.pc = "loop", !.watch_enabled = TRUE,
                                    !.watcher = "some" ]
              ELSE send_error([ IdleSys EXCEPT !.pc = "loop",
                                               !.watch_enabled = TRUE ],
                              "file watching unavailable")

WatchAccept(created) == watch_accept(created) /\ UNCHANGED << notWatch, unlinked >>

\* the client sends m
WatchClientSend(m) ==
    /\ sys.pc # "idle"
    /\ sys.up
    /\ sys.nsent < MaxWatchMsgs
    /\ sys' = [ sys EXCEPT
           !.inq = Append(@, m),
           !.nsent = @ + 1,
           !.up = m.type \notin { "Close", "Error", "End" },
           !.open = m.type \notin { "Error", "End" } ]
    /\ UNCHANGED << notWatch, unlinked >>

TextMsg(payload) == [ type |-> "Text", payload |-> payload ]

OtherMsg(t) == [ type |-> t, payload |-> NotJson ]

\* the select! arm of receiver.next() is ready
SysReceiving ==
    /\ sys.pc = "loop"
    /\ sys.inq # <<>>

\* Some(Ok(Message::Text(text)))
SysRecvText(registered) ==
    /\ SysReceiving
    /\ Head(sys.inq).type = "Text"
    /\ sys' = handle_client_message([ sys EXCEPT !.inq = Tail(@) ], root,
                                    unlinked, Head(sys.inq).payload, registered)
    /\ UNCHANGED << notWatch, unlinked >>

\* Some(Ok(Message::Ping(payload)))
SysRecvPing ==
    /\ SysReceiving
    /\ Head(sys.inq).type = "Ping"
    /\ sys' = send_json([ sys EXCEPT !.inq = Tail(@) ], Event("pong", EmptyRel))
    /\ UNCHANGED << notWatch, unlinked >>

\* Some(Ok(Message::Binary(_))) and Some(Ok(Message::Pong(_)))
SysRecvIgnored ==
    /\ SysReceiving
    /\ Head(sys.inq).type \in { "Binary", "Pong" }
    /\ sys' = [ sys EXCEPT !.inq = Tail(@) ]
    /\ UNCHANGED << notWatch, unlinked >>

\* Close, a receive error, or the end of the stream: the loop ends and the
\* watcher is dropped with the connection
SysRecvBreak ==
    /\ SysReceiving
    /\ Head(sys.inq).type \in { "Close", "Error", "End" }
    /\ sys' = [ sys EXCEPT !.inq = Tail(@), !.pc = "done", !.watched = {} ]
    /\ UNCHANGED << notWatch, unlinked >>

\* (a loop whose event arm has no precondition: without a watcher the
\* channel has no sender, recv() returns None and the loop breaks)
SysRecvEventUnguarded ==
    /\ sys.pc = "loop"
    /\ IF sys.watcher = "none"
       THEN sys' = [ sys EXCEPT !.pc = "done" ]
       ELSE /\ sys.events # <<>>
            /\ LET ev == Head(sys.events)
                   st == [ sys EXCEPT !.events = Tail(@) ]
               IN  sys' = IF ~ev.ok THEN send_error(st, "watcher error")
                          ELSE IF st.open
                          THEN [ st EXCEPT !.out = @ \o
                                   forward_event(sys.tracked, root, unlinked,
                                                 ev.paths) ]
                          ELSE st
    /\ UNCHANGED << notWatch, unlinked >>

\* (a loop that takes the newest result of the channel, not the oldest)
SysRecvEventNewest ==
    /\ sys.pc = "loop"
    /\ sys.watch_enabled
    /\ sys.watcher = "some"
    /\ sys.events # <<>>
    /\ LET ev == sys.events[Len(sys.events)]
           st == [ sys EXCEPT !.events = SubSeq(@, 1, Len(@) - 1) ]
       IN  sys' = IF ~ev.ok THEN send_error(st, "watcher error")
                  ELSE IF st.open
                  THEN [ st EXCEPT !.out = @ \o
                           forward_event(sys.tracked, root, unlinked, ev.paths) ]
                  ELSE st
    /\ UNCHANGED << notWatch, unlinked >>

\* the select! arm of event_rx.recv(): enabled only with a watcher
SysRecvEvent ==
    /\ sys.pc = "loop"
    /\ sys.watch_enabled
    /\ sys.watcher = "some"
    /\ sys.events # <<>>
    /\ LET ev == Head(sys.events)
           st == [ sys EXCEPT !.events = Tail(@) ]
       IN  sys' = IF ~ev.ok THEN send_error(st, "watcher error")
                  ELSE IF st.open
                  THEN [ st EXCEPT !.out = @ \o
                           forward_event(sys.tracked, root, unlinked, ev.paths) ]
                  ELSE st
    /\ UNCHANGED << notWatch, unlinked >>

\* the paths the platform watcher reports
EventPaths == { << "box", "d" >>, << "box", "d", "f" >>, << "box", "in" >>,
                << "etc", "passwd" >> }

\* a registered path, or an entry of a registered directory
Relevant(p) == p \in sys.watched \/ (p # <<>> /\ Parent(p) \in sys.watched)

\* the watcher's callback sends Ok(event) into the channel
WatcherEvent(paths) ==
    /\ sys.pc = "loop"
    /\ sys.watcher = "some"
    /\ sys.nevents < MaxEvents
    /\ \A i \in 1..Len(paths) : Relevant(paths[i])
    /\ sys' = [ sys EXCEPT
           !.events = Append(@, [ ok |-> TRUE, paths |-> paths ]),
           !.nevents = @ + 1 ]
    /\ UNCHANGED << notWatch, unlinked >>

\* the watcher's callback sends Err(error) into the channel
WatcherError ==
    /\ sys.pc = "loop"
    /\ sys.watcher = "some"
    /\ sys.nevents < MaxEvents
    /\ sys' = [ sys EXCEPT
           !.events = Append(@, [ ok |-> FALSE, paths |-> <<>> ]),
           !.nevents = @ + 1 ]
    /\ UNCHANGED << notWatch, unlinked >>

\* somebody deletes a file of the host filesystem
Unlink(f) ==
    /\ f \in Files \ unlinked
    /\ unlinked' = unlinked \cup { f }
    /\ UNCHANGED << notWatch, sys >>

\* the paths a watch or unwatch request may name: the root, a directory, a
\* link to that directory, a file through the link, a link that leaves the
\* root, and a name that does not exist
WatchRels == { EmptyRel,
               [ abs |-> FALSE, comps |-> << "d" >> ],
               [ abs |-> FALSE, comps |-> << "in" >> ],
               [ abs |-> FALSE, comps |-> << "in", "f" >> ],
               [ abs |-> FALSE, comps |-> << "out" >> ],
               [ abs |-> FALSE, comps |-> << "zz" >> ] }

\* text payloads that are not a watch or unwatch request
Malformed == { NotJson,
               Json("watch", NoField),
               Json("subscribe", JsonField(EmptyRel)) }

Request(a, rel) == TextMsg(Json(a, JsonField(rel)))

WatchInit ==
    \E w \in BOOLEAN : InitWith([ DefaultConfig EXCEPT !.enable_watch = w ])

\* the handling of every kind of client message, with a quiet watcher
WatchNext ==
    \/ \E created \in BOOLEAN : WatchAccept(created)
    \/ \E a \in { "watch", "unwatch" }, rel \in WatchRels :
          WatchClientSend(Request(a, rel))
    \/ \E payload \in Malformed : WatchClientSend(TextMsg(payload))
    \/ \E t \in { "Ping", "Binary", "Close", "End" } :
          WatchClientSend(OtherMsg(t))
    \/ \E registered \in BOOLEAN : SysRecvText(registered)
    \/ SysRecvPing
    \/ SysRecvIgnored
    \/ SysRecvBreak

WatchSpec == WatchInit /\ [][WatchNext]_vars

\* requests and watcher results that queue up behind one another: the client
\* and the watcher do not wait for the loop
OrderNext ==
    \/ WatchAccept(TRUE)
    \/ \E rel \in { EmptyRel, [ abs |-> FALSE, comps |-> << "d" >> ],
                      [ abs |-> FALSE, comps |-> << "in" >> ] } :
          WatchClientSend(Request("watch", rel))
    \/ WatchClientSend(OtherMsg("Ping"))
    \/ SysRecvText(TRUE)
    \/ SysRecvPing
    \/ SysRecvEvent
    \/ \E p \in { << "box", "d" >>, << "box", "d", "f" >> } : WatcherEvent(<< p >>)
    \/ WatcherError

OrderSpec == WatchInit /\ [][OrderNext]_vars

\* the requests a client sends where watcher events are explored
MaxEventMsgs == 2

\* watcher events interleaved with a few requests, file deletion and a
\* change of root; the client waits for its last message to be taken and the
\* watcher for its last event to be taken
EventNext ==
    \/ \E created \in BOOLEAN : WatchAccept(created)
    \/ /\ sys.inq = <<>>
       /\ sys.nsent < MaxEventMsgs
       /\ \/ \E rel \in { EmptyRel, [ abs |-> FALSE, comps |-> << "in" >> ],
                           [ abs |-> FALSE, comps |-> << "in", "f" >> ] } :
                WatchClientSend(Request("watch", rel))
          \/ WatchClientSend(Request("unwatch",
                                     [ abs |-> FALSE, comps |-> << "in" >> ]))
    \/ SysRecvText(TRUE)
    \/ SysRecvEvent
    \/ /\ sys.events = <<>>
       /\ \/ \E p \in EventPaths : WatcherEvent(<< p >>)
          \/ WatcherEvent(<< << "box", "d", "f" >>, << "box", "d" >> >>)
          \/ WatcherError
    \/ Unlink(<< "box", "d", "f" >>)
    \/ SetRootCall([ abs |-> TRUE, comps |-> << "etc" >> ])

EventSpec == WatchInit /\ [][EventNext]_vars

---------------------------------------------------------------------------
(* The server as its router exposes it (main.rs, http/mod.rs, ws/mod.rs):
   one request at a time, each handler whole.  The router carries a trace
   layer and no other middleware. *)

\* the Cookie headers a request may carry
Headers ==
    { NoHeaders }
    \cup { CookieHeader(<< Cookie("theme", 1, 2), Cookie("session", id, 2) >>) :
             id \in SessionIds \cup { BogusId } }

Passwords == { Password, "guess" }

\* the paths a request may name
Paths == { EmptyRel,
           [ abs |-> FALSE, comps |-> << "a.txt" >> ],
           [ abs |-> FALSE, comps |-> << "out", "passwd" >> ] }

\* the request's cookie names a session that validate would accept now
Validating(headers) ==
    LET session_id == extract_session_id_from_headers(headers)
    IN  /\ session_id.some
        /\ is_some(prune_expired(sessions, now), session_id.value)

\* the new_root values a POST /api/fs/root may carry
RequestedRoots == { [ abs |-> TRUE, comps |-> c ] :
                    c \in { << "etc" >>, << "zz" >> } }

\* a handler answers the request
serve(op, headers, resp, cookie) ==
    /\ http.pc = "idle"
    /\ http' = [ IdleHttp EXCEPT !.pc = "done", !.op = op,
                                  !.resp = resp, !.set_cookie = cookie,
                                  !.valid = Validating(headers),
                                  !.session_id =
                                      IF op \in { "status", "logout" }
                                      THEN extract_session_id_from_headers(headers)
                                      ELSE NoId ]

OkBody == [ NoBody EXCEPT !.kind = "ok" ]

\* POST /api/login
login_handler(headers, password) ==
    LET verified == verify(config, password)
        fresh == SessionIds \ DOMAIN issued
        session_id == CHOOSE i \in fresh : \A j \in fresh : i <= j
    IN  /\ verified.ok => fresh # {}
        /\ IF verified.ok
           THEN /\ sessions' = insert(sessions, session_id, now + ttl)
                /\ issued' = insert(issued, session_id, now)
                /\ serve("login", headers, HttpOk(OkBody),
                         SetCookie(session_id, ttl_seconds(config)))
           ELSE /\ serve("login", headers, HttpErr(verified),
                         NoCookie)
                /\ UNCHANGED << sessions, issued >>
        /\ UNCHANGED << fsVars, now, scall, removed, config, termVars, watchVars >>

\* GET /api/auth/status
auth_status_handler(headers) ==
    LET session_id == extract_session_id_from_headers(headers)
        pruned == prune_expired(sessions, now)
    IN  /\ sessions' = IF session_id.some THEN pruned ELSE sessions
        /\ serve("status", headers,
                 HttpOk([ NoBody EXCEPT !.kind = "status",
                     !.authenticated = /\ session_id.some
                                       /\ is_some(pruned, session_id.value) ]),
                 NoCookie)
        /\ UNCHANGED << fsVars, now, scall, issued, removed, config, termVars,
                        watchVars >>

\* POST /api/logout
logout_handler(headers) ==
    LET session_id == extract_session_id_from_headers(headers)
    IN  /\ IF session_id.some
           THEN /\ sessions' = remove(sessions, session_id.value)
                /\ removed' = removed \cup
                                 ({ session_id.value } \cap DOMAIN sessions)
           ELSE UNCHANGED << sessions, removed >>
        /\ serve("logout", headers, HttpOk(OkBody),
                 SetCookie(0, 0))
        /\ UNCHANGED << fsVars, now, scall, issued, config, termVars, watchVars >>

\* GET /api/fs/list, /api/fs/content and /api/fs/raw: the handlers take the
\* state and the query, and never the request's headers
fs_handler(op, headers, query) ==
    /\ serve(op, headers,
             CASE op = "list" -> list_handler(root, query)
               [] op = "content" -> content_handler(root, query)
               [] op = "raw" -> raw_handler(root, query),
             NoCookie)
    /\ UNCHANGED << fsVars, sessVars, config, termVars, watchVars >>

\* POST /api/fs/root
change_root_handler(headers, new_root) ==
    LET canonical_root == set_root(new_root)
    IN  /\ root' = IF canonical_root.ok THEN canonical_root.path ELSE root
        /\ serve("root", headers,
                 IF canonical_root.ok
                 THEN HttpOk([ NoBody EXCEPT !.kind = "root",
                        !.path = [ abs |-> TRUE, comps |-> canonical_root.path ] ])
                 ELSE HttpErr(canonical_root),
                 NoCookie)
        /\ UNCHANGED << call, sessVars, config, termVars, watchVars >>

Upgraded == [ NoResp EXCEPT !.status = 101 ]

\* GET /ws/term: the upgrade, then handle_socket up to its loop
term_ws_handler(headers, c, created) ==
    /\ accept(c, created)
    /\ serve("ws_term", headers, Upgraded, NoCookie)
    /\ UNCHANGED << fsVars, sessVars, config, watchVars >>

\* GET /ws/system: the upgrade, then handle_socket up to its loop
system_ws_handler(headers) ==
    /\ watch_accept(TRUE)
    /\ serve("ws_system", headers, Upgraded, NoCookie)
    /\ UNCHANGED << fsVars, sessVars, config, termVars, unlinked >>

\* the client takes the response
HttpReturn ==
    /\ http.pc = "done"
    /\ http' = IdleHttp
    /\ UNCHANGED << fsVars, sessVars, config, termVars, watchVars >>

\* time passes between requests
HttpTick == http.pc = "idle" /\ Tick

HttpInit == \E cfg \in Configs : InitWith(cfg)

Next ==
    \/ \E h \in Headers, pw \in Passwords : login_handler(h, pw)
    \/ \E h \in Headers : auth_status_handler(h)
    \/ \E h \in Headers : logout_handler(h)
    \/ \E h \in Headers, path \in Paths, hidden \in BOOLEAN,
          op \in { "list", "content", "raw" } :
            fs_handler(op, h, Query(path, hidden))
    \/ \E h \in Headers, nr \in RequestedRoots : change_root_handler(h, nr)
    \/ \E h \in Headers, created \in BOOLEAN :
            term_ws_handler(h, "A", created)
    \/ \E h \in Headers : system_ws_handler(h)
    \/ HttpReturn
    \/ HttpTick

Spec == HttpInit /\ [][Next]_vars

---------------------------------------------------------------------------
(* Claims about the router, under Spec *)

\* the routes behind the authentication gate
Gated == { "list", "content", "raw", "root", "ws_term", "ws_system" }

\* C2: a request to a filesystem route or a WebSocket upgrade that carries
\* no validating session is answered 401, with no filesystem content in the
\* body, no PTY created and no watcher set up for it.
C2_AuthGate ==
    (http.pc = "done" /\ http.op \in Gated /\ ~http.valid) =>
        /\ http.resp.status = 401
        /\ http.resp.body = NoBody
        /\ \A p \in PtyIds : ptys[p] = NoPty
        /\ sys = IdleSys

\* C4: the sandbox root is the root the service was constructed with
C4_RootImmutable == root = StartupRoot


\* a request to op is answered in this step
Answers(op) == http.pc = "idle" /\ http'.pc = "done" /\ http'.op = op

\* C13: a session id that a logout has removed is in the store no more, and
\* every later status request that presents it is answered unauthenticated;
\* a logout removes the entry of the id its cookie carries and no other,
\* changes nothing when that id is not in the store or the request has no
\* session cookie, and in every case answers ok with a session cookie of
\* Max-Age=0.
C13_Logout ==
    /\ [](/\ \A id \in removed : id \notin DOMAIN sessions
          /\ ( /\ http.pc = "done"
               /\ http.op = "status"
               /\ http.session_id.some
               /\ http.session_id.value \in removed )
             => ~http.resp.body.authenticated)
    /\ [][ Answers("logout") =>
             LET id == http'.session_id
             IN  /\ http'.resp.status = 200
                 /\ http'.resp.body = OkBody
                 /\ http'.set_cookie = [ present |-> TRUE, session |-> 0,
                                         max_age |-> 0 ]
                 /\ IF id.some /\ id.value \in DOMAIN sessions
                    THEN /\ DOMAIN sessions' = DOMAIN sessions \ { id.value }
                         /\ \A i \in DOMAIN sessions' :
                               sessions'[i] = sessions[i]
                    ELSE sessions' = sessions
       ]_vars

\* C13 witness: a status request presenting a logged-out session that has
\* not expired, while another session is still in the store
C13_Witness ==
    /\ http.pc = "done"
    /\ http.op = "status"
    /\ http.session_id.some
    /\ http.session_id.value \in removed
    /\ http.session_id.value \in DOMAIN issued
    /\ now < issued[http.session_id.value] + ttl
    /\ DOMAIN sessions # {}


\* what a login that creates no session leaves behind
NoSessionCreated ==
    /\ sessions' = sessions
    /\ ~http'.set_cookie.present

\* C14: the store gains an entry only in a step that answers a login 200;
\* a login with the correct password against a well-formed hash adds
\* exactly one entry, new to the store, and returns its id in a Set-Cookie
\* with Max-Age = session_timeout_minutes * 60; a login with a wrong
\* password is answered 401 and a login against a malformed hash 500, both
\* without a cookie and with the store unchanged.
C14_Login ==
    [][ /\ ~(DOMAIN sessions' \subseteq DOMAIN sessions) =>
              Answers("login") /\ http'.resp.status = 200
        /\ \A h \in Headers, pw \in Passwords :
              (Answers("login") /\ login_handler(h, pw)) =>
              IF config.password_hash = "malformed"
              THEN /\ http'.resp.status = 500
                   /\ http'.resp.error = "internal error: invalid password hash"
                   /\ NoSessionCreated
              ELSE IF config.password_hash = "valid" /\ pw # Password
              THEN /\ http'.resp.status = 401
                   /\ http'.resp.error = "unauthorized"
                   /\ NoSessionCreated
              ELSE IF config.password_hash = "valid"
              THEN LET id == http'.set_cookie.session
                   IN  /\ http'.resp.status = 200
                       /\ http'.resp.body = OkBody
                       /\ http'.set_cookie.present
                       /\ http'.set_cookie.max_age =
                              config.session_timeout_minutes * 60
                       /\ id \notin DOMAIN sessions
                       /\ DOMAIN sessions' = DOMAIN sessions \cup { id }
                       /\ \A i \in DOMAIN sessions : sessions'[i] = sessions[i]
                       /\ sessions'[id] = now + SessionTimeoutMinutes
              ELSE /\ http'.resp.status = 500
                   /\ NoSessionCreated
      ]_vars

\* C14 witness: a second successful login has been answered with its cookie
C14_Witness ==
    /\ http.pc = "done"
    /\ http.op = "login"
    /\ http.resp.status = 200
    /\ http.set_cookie.present
    /\ http.set_cookie.session \in DOMAIN sessions
    /\ Cardinality(DOMAIN sessions) = 2


---------------------------------------------------------------------------
(* Claims about the watch socket, under WatchSpec and EventSpec *)

\* the canonical path a request for rel names now
Canon(rel) == exists_now(unlinked, resolve_path(root, rel))

\* the positions in the messages sent of the acknowledgements of a watch or
\* unwatch of the canonical path k
Acks(k) ==
    { i \in 1..Len(sys.out) :
        /\ sys.out[i].event \in { "watching", "unwatched" }
        /\ Canon(sys.out[i].path).ok
        /\ Canon(sys.out[i].path).path = k }

Last(idx) == CHOOSE i \in idx : \A j \in idx : j <= i

\* the loop takes the text message at the head of its stream, a well-formed
\* request for action a
Handles(a) ==
    /\ SysReceiving
    /\ sys'.inq = Tail(sys.inq)
    /\ Head(sys.inq).type = "Text"
    /\ from_str(Head(sys.inq).payload).ok
    /\ from_str(Head(sys.inq).payload).action = a

Requested == from_str(Head(sys.inq).payload).path

\* C15: on a watch connection whose transport is open, a canonical path is
\* in the subscription map, once and under the latest string, and is
\* registered with the watcher, exactly when the last acknowledgement sent
\* for a path that resolves to it is "watching": two watches of one canonical
\* path leave one entry, and an unwatch acknowledged after them leaves none.
\* Every watch request that resolves and registers is acknowledged with one
\* "watching", whether or not its canonical path is already in the map.
C15_WatchIdempotence ==
    /\ []((sys.pc = "loop" /\ sys.open) =>
            \A rel \in WatchRels : Canon(rel).ok =>
                LET k == Canon(rel).path
                    subscribed == /\ Acks(k) # {}
                                  /\ sys.out[Last(Acks(k))].event = "watching"
                IN  /\ (k \in DOMAIN sys.tracked) = subscribed
                    /\ (k \in sys.watched) = subscribed
                    /\ subscribed =>
                          sys.tracked[k] = sys.out[Last(Acks(k))].path)
    /\ [][ ( /\ Handles("watch")
             /\ sys.open
             /\ sys.watcher = "some"
             /\ Canon(Requested).ok ) =>
           \/ /\ sys'.out = Append(sys.out, Event("watching", Requested))
              /\ DOMAIN sys'.tracked =
                    DOMAIN sys.tracked \cup { Canon(Requested).path }
              /\ sys'.watched = sys.watched \cup { Canon(Requested).path }
           \/ /\ sys'.out = Append(sys.out, ErrorEvent("watch failed"))
              /\ sys'.tracked = sys.tracked
              /\ sys'.watched = sys.watched
       ]_vars

\* C15 witness: "d" and the link "in" to it were watched and acknowledged,
\* then "d" was unwatched, and nothing is subscribed
C15_Witness ==
    /\ sys.out = << Event("watching", [ abs |-> FALSE, comps |-> << "d" >> ]),
                   Event("watching", [ abs |-> FALSE, comps |-> << "in" >> ]),
                   Event("unwatched", [ abs |-> FALSE, comps |-> << "d" >> ]) >>
    /\ DOMAIN sys.tracked = {}
    /\ sys.watched = {}
    /\ sys.pc = "loop"


\* C16: on a connection of a server configured with enable_watch = false no
\* watcher exists, nothing is registered, the subscription map is empty, no
\* watcher event is pending and no "watching" or "change" event has been
\* sent, whatever happens to the files; and every watch request is answered
\* with the error "file watching disabled", the path it names resolving or
\* not.
C16_WatchDisabled ==
    /\ []((sys.pc # "idle" /\ ~config.enable_watch) =>
            /\ ~sys.watch_enabled
            /\ sys.watcher = "none"
            /\ sys.watched = {}
            /\ DOMAIN sys.tracked = {}
            /\ sys.events = <<>>
            /\ \A i \in 1..Len(sys.out) :
                  sys.out[i].event \notin { "watching", "change" })
    /\ [][ (Handles("watch") /\ ~config.enable_watch /\ sys.open) =>
              sys'.out = Append(sys.out, ErrorEvent("file watching disabled"))
       ]_vars

\* C16 witness: with the feature disabled two watch requests were refused
\* and a file under the root was deleted
C16_Witness ==
    /\ ~config.enable_watch
    /\ sys.out = << ErrorEvent("file watching disabled"),
                   ErrorEvent("file watching disabled") >>
    /\ unlinked # {}
    /\ sys.inq = <<>>


\* C17: when the loop handles a watch request, with the feature enabled and
\* the transport open, whose path does not resolve inside the sandbox, or
\* whose registration with the watcher fails, the subscription map and the
\* set of registered paths are what they were, the one message sent is the
\* error event "invalid path", respectively "watch failed", and the loop goes
\* on with the connection open.
C17_FailedWatch ==
    [][ \A registered \in BOOLEAN :
          ( /\ SysRecvText(registered)
            /\ Handles("watch")
            /\ sys.watch_enabled
            /\ sys.open
            /\ \/ ~Canon(Requested).ok
               \/ sys.watcher = "some" /\ ~registered ) =>
          /\ sys'.tracked = sys.tracked
          /\ sys'.watched = sys.watched
          /\ sys'.out = Append(sys.out,
                 ErrorEvent(IF ~Canon(Requested).ok THEN "invalid path"
                            ELSE "watch failed"))
          /\ sys'.pc = "loop"
          /\ sys'.open
          /\ sys'.up = sys.up
      ]_vars

\* C17 witness: a watch of a path outside the sandbox and a watch whose
\* registration failed were answered with one error each, and the watch that
\* followed them on the same connection was accepted
C17_Witness ==
    /\ sys.out = << ErrorEvent("invalid path"),
                   ErrorEvent("watch failed"),
                   Event("watching", [ abs |-> FALSE, comps |-> << "d" >> ]) >>
    /\ DOMAIN sys.tracked = { << "box", "d" >> }
    /\ sys.pc = "loop"


\* the subscription map m without its entry for the canonical path k
Without(m, k) == [ j \in DOMAIN m \ { k } |-> m[j] ]

\* the effect of an unwatch that the watcher of the connection carries out
Unwatched ==
    LET k == Canon(Requested).path
    IN  /\ sys'.tracked = Without(sys.tracked, k)
        /\ sys'.watched = IF k \in DOMAIN sys.tracked
                          THEN sys.watched \ { k } ELSE sys.watched
        /\ sys'.out = Append(sys.out, Event("unwatched", Requested))

\* an unwatch that is ignored: nothing but the message taken changes
Ignored == sys' = [ sys EXCEPT !.inq = Tail(@) ]

\* C18 as stated: an unwatch whose path fails to resolve is ignored
\* silently, and every unwatch whose path resolves removes the entry of the
\* canonical path, unregisters it if it was present, leaves the other
\* entries alone and is answered "unwatched".
C18_Original ==
    [][ (Handles("unwatch") /\ sys.open) =>
           IF Canon(Requested).ok THEN Unwatched ELSE Ignored ]_vars

\* C18: an unwatch whose path fails to resolve is ignored silently; an
\* unwatch whose path resolves, on a connection that has a watcher, removes
\* the entry of the canonical path, unregisters it if it was present, leaves
\* the other entries alone and is answered "unwatched"; on a connection
\* without a watcher (the feature disabled, or the watcher not created) it
\* changes nothing and is answered with the error "watcher unavailable".
C18_Unwatch ==
    [][ (Handles("unwatch") /\ sys.open) =>
           IF ~Canon(Requested).ok THEN Ignored
           ELSE IF sys.watcher = "some" THEN Unwatched
           ELSE /\ sys'.tracked = sys.tracked
                /\ sys'.watched = sys.watched
                /\ sys'.out = Append(sys.out, ErrorEvent("watcher unavailable"))
      ]_vars

\* C18 witness: the root and "d" were watched, then "d" was unwatched through
\* the link "in": the entry of "d" is gone and the root's is left
C18_Witness ==
    /\ sys.out = << Event("watching", EmptyRel),
                   Event("watching", [ abs |-> FALSE, comps |-> << "d" >> ]),
                   Event("unwatched", [ abs |-> FALSE, comps |-> << "in" >> ]) >>
    /\ DOMAIN sys.tracked = { << "box" >> }
    /\ sys.watched = { << "box" >> }


\* C19: when the loop takes a text message that is not JSON, that lacks the
\* path, or whose action is neither "watch" nor "unwatch", with the transport
\* open, the one message sent is the error event "invalid payload", the
\* subscription map, the watcher and its registrations are what they were,
\* and the loop goes on with the connection open.
C19_InvalidPayload ==
    [][ ( /\ SysReceiving
          /\ sys'.inq = Tail(sys.inq)
          /\ Head(sys.inq).type = "Text"
          /\ Head(sys.inq).payload \in Malformed
          /\ sys.open ) =>
          /\ sys'.out = Append(sys.out, ErrorEvent("invalid payload"))
          /\ sys'.tracked = sys.tracked
          /\ sys'.watched = sys.watched
          /\ sys'.watcher = sys.watcher
          /\ sys'.pc = "loop"
          /\ sys'.open
          /\ sys'.up = sys.up
      ]_vars

\* C19 witness: between two accepted watch requests a malformed message was
\* answered "invalid payload", and both subscriptions are in the map
C19_Witness ==
    /\ sys.out = << Event("watching", EmptyRel),
                   ErrorEvent("invalid payload"),
                   Event("watching", [ abs |-> FALSE, comps |-> << "d" >> ]) >>
    /\ DOMAIN sys.tracked = { << "box" >>, << "box", "d" >> }
    /\ sys.pc = "loop"


None == [ some |-> FALSE, rel |-> EmptyRel ]

\* the string the subscription map holds for the path k, if any
Lookup(k) ==
    IF k \in DOMAIN sys.tracked
    THEN [ some |-> TRUE, rel |-> sys.tracked[k] ] ELSE None

\* the path k with the sandbox root stripped, if it is under the root
Strip(k) ==
    IF to_relative(root, k).some
    THEN [ some |-> TRUE,
           rel |-> [ abs |-> FALSE, comps |-> to_relative(root, k).comps ] ]
    ELSE None

\* the four attempts for the event path p, in the order (i) to (iv)
Attempts(p) ==
    LET canonical == exists_now(unlinked, canonicalize(p))
    IN  << IF canonical.ok THEN Lookup(canonical.path) ELSE None,
           IF canonical.ok THEN Strip(canonical.path) ELSE None,
           Lookup(p),
           Strip(p) >>

\* the first attempt that succeeds, if any does
Selected(p) ==
    LET won == { i \in 1..4 : Attempts(p)[i].some }
    IN  IF won = {} THEN None
        ELSE Attempts(p)[CHOOSE i \in won : \A j \in won : i <= j]

IsSome(c) == c.some

\* one "change" message for each path with a selected string, in the order
\* of the paths
Sent(paths) ==
    LET kept == SelectSeq([ i \in 1..Len(paths) |-> Selected(paths[i]) ], IsSome)
    IN  [ i \in 1..Len(kept) |-> Event("change", kept[i].rel) ]

\* the loop takes the watcher event at the head of the channel
TakesEvent ==
    /\ sys.pc = "loop"
    /\ sys.events # <<>>
    /\ sys'.events = Tail(sys.events)

\* C20: when the loop takes a watcher event, with the transport open, the
\* messages it sends are, for each path P of the event in turn, one "change"
\* with the first success of (i) the map's string for canonical P, (ii)
\* canonical P with the root stripped, (iii) the map's string for P as
\* reported, (iv) P as reported with the root stripped, and nothing for a P
\* for which all four fail; the map is not changed.
C20_ChangePath ==
    [][ (TakesEvent /\ Head(sys.events).ok /\ sys.open) =>
          /\ sys'.out = sys.out \o Sent(Head(sys.events).paths)
          /\ sys'.tracked = sys.tracked
      ]_vars

\* C20 witness: "in", a link to the directory d, is watched; of two events
\* taken, the one for d was sent under the map's string "in" and not under
\* the stripped "d", and one that came after the root had moved away was
\* dropped
C20_Witness ==
    /\ sys.out = << Event("watching", [ abs |-> FALSE, comps |-> << "in" >> ]),
                   Event("change", [ abs |-> FALSE, comps |-> << "in" >> ]) >>
    /\ sys.nevents = 2
    /\ sys.events = <<>>
    /\ root = << "etc" >>


---------------------------------------------------------------------------
(* Claims about the session store under interleaving, under SessSpec *)

\* C21: under every interleaving of create, validate and remove calls, a
\* validate of a token that create_session had returned answers true only
\* if, at the sweep made inside that same call, the entry of the token was
\* in the store with expires_at > now; and the sweep of a validate leaves in
\* the store no entry with expires_at <= now, and none that was not there.
C21_ValidateAtSweep ==
    /\ [](\A c \in Callers : (Validated(c) /\ scall[c].result) => scall[c].live)
    /\ [][ \A c \in Callers :
             (scall[c].pc = "idle" /\ scall'[c].pc = "lookup") =>
                /\ \A i \in DOMAIN sessions' : sessions'[i] > now
                /\ \A i \in DOMAIN sessions :
                      sessions[i] > now =>
                         i \in DOMAIN sessions' /\ sessions'[i] = sessions[i]
                /\ DOMAIN sessions' \subseteq DOMAIN sessions
       ]_vars

\* C21 witness: the race between the sweep and the lookup: a validate swept
\* while the entry was live, answered true, and ended when the entry had
\* expired
C21_Witness ==
    \E c \in Callers :
        /\ Validated(c)
        /\ scall[c].result
        /\ scall[c].live
        /\ scall[c].ended >= issued[scall[c].id] + ttl


---------------------------------------------------------------------------
(* Claims about the life of a terminal connection, under TermSpec *)

\* handle_socket of connection c is in its message loop
InLoop(c) == term[c].pc \in { "loop", "pong_lock", "pong_send" }

\* C22: a terminal connection that created a session leaves its message
\* loop only on a Close frame, a transport error or the end of the stream,
\* and then only into shutdown(); the reader task is aborted only after
\* shutdown() has returned, and the handler returns only after the abort; so
\* whenever the reader has been aborted or the handler has returned, the
\* child of the session is not running.
C22_KilledBeforeDestroyed ==
    /\ [](\A c \in Conns :
            ( /\ term[c].session # 0
              /\ term[c].aborted \/ term[c].pc \in { "abort", "done" } ) =>
            Pty(c).child \in { "killed", "exited" })
    /\ [][ \A c \in Conns :
             /\ (InLoop(c) /\ ~InLoop(c)') =>
                   /\ term'[c].pc = "shutdown"
                   /\ Next_msg(c).type \in { "Close", "Error", "End" }
             /\ (term[c].pc # "abort" /\ term'[c].pc = "abort") =>
                   /\ term[c].pc = "shutdown"
                   /\ Pty(c)'.child # "running"
             /\ (~term[c].aborted /\ term'[c].aborted) => term[c].pc = "abort"
             /\ (term[c].pc \notin { "idle", "done" } /\ term'[c].pc = "done") =>
                   term[c].pc = "abort" /\ term'[c].aborted
       ]_vars

\* C22 witness: the stream of a connection ended while its shell was
\* running; the handler has returned and the child was killed
C22_Witness ==
    /\ term["A"].pc = "done"
    /\ term["A"].session # 0
    /\ ~term["A"].open
    /\ Pty("A").child = "killed"


\* the handler of connection c has left its loop, killed the child, aborted
\* the reader task and returned
Destroyed(c) ==
    /\ term[c].pc = "done"
    /\ term[c].aborted
    /\ Pty(c).child # "running"

\* C23: once the client of a terminal connection has sent a Close frame, or
\* its transport has failed, the handler eventually leaves its loop, kills
\* the child, aborts the reader task and returns, whatever the shell does,
\* also when it never reads its input and prints nothing.
C23_TeardownLive ==
    \A c \in Conns :
        (term[c].session # 0 /\ ~term[c].up) ~> Destroyed(c)


\* C24: after the shell of a terminal connection has exited, the handler
\* eventually leaves its loop and the session is destroyed, whatever the
\* client does, also when it sends nothing more.
C24_DestroyedOnExit ==
    \A c \in Conns :
        (term[c].session # 0 /\ Pty(c).child = "exited") ~> Destroyed(c)


\* the connections that hold a PTY session
Owners(p) == { c \in Conns : term[c].session = p }

\* C25: every accepted terminal connection owns a PTY session of its own:
\* no session is shared by two connections, a session exists only for the
\* connection that created it, the bytes a session's shell has received are
\* bytes its own client typed, and the frames a client is sent are output
\* of its own shell.
C25_OwnSession ==
    /\ \A p \in PtyIds : Cardinality(Owners(p)) <= 1
    /\ \A p \in PtyIds : ptys[p].child # "none" => Owners(p) # {}
    /\ \A c \in Conns : term[c].session # 0 =>
          /\ Pty(c).child # "none"
          /\ IsPrefix(Pty(c).stdin, term[c].typed)
          /\ IsPrefix(Flatten(SentChunks(c)), Pty(c).produced)
          /\ \A d \in Conns \ { c } :
                \A i \in 1..Len(Pty(c).stdin) :
                    \A j \in 1..Len(term[d].typed) :
                        Pty(c).stdin[i] # term[d].typed[j]

\* C25 witness: both connections are served, each shell has received its own
\* client's byte and each client has been sent its own shell's output
C25_Witness ==
    /\ term["A"].session # 0
    /\ term["B"].session # 0
    /\ Pty("A").stdin = << 7 >>
    /\ Pty("B").stdin = << 9 >>
    /\ SentChunks("A") # <<>>
    /\ SentChunks("B") # <<>>
    /\ Flatten(SentChunks("A")) # Flatten(SentChunks("B"))


\* what the handler logs when PtySession::write or resize returns an error
PtyFailures == { "pty write failed", "pty resize failed" }

\* the handler of c takes the head of its receive stream in this step
TakesFrame(c) ==
    /\ term[c].pc = "loop"
    /\ term[c].inq # <<>>
    /\ term'[c].inq = Tail(term[c].inq)

\* C26: a step in which the handler takes a 0x01 or 0x02 frame and the PTY
\* write or resize fails logs the failure, sends nothing, changes nothing in
\* the PTY and leaves the handler in its loop with exactly the following
\* frames still to process, in their order; a step that takes the handler
\* out of its loop took a Close frame, a transport error or the end of the
\* stream.
C26_FailureKeepsLoop ==
    [][ \A c \in Conns :
          /\ (TakesFrame(c) /\ term'[c].log \in PtyFailures) =>
                /\ dispatch(Next_msg(c)).act \in { "write", "resize" }
                /\ term'[c].pc = "loop"
                /\ term'[c].out = term[c].out
                /\ term'[c].up = term[c].up
                /\ term'[c].aborted = term[c].aborted
                /\ ptys' = ptys
          /\ (TakesFrame(c) /\ term'[c].pc \notin { "loop", "pong_lock" }) =>
                /\ dispatch(Next_msg(c)).act = "break"
                /\ Next_msg(c).type \in { "Close", "Error", "End" }
                /\ term'[c].log \notin PtyFailures
      ]_vars

\* C26 witness: the shell is gone; the write of a typed payload failed, and
\* the resize frame that followed it was taken and failed as well, with the
\* handler still in its loop and nothing sent by it
C26_Witness ==
    /\ term["A"].pc = "loop"
    /\ Pty("A").child = "exited"
    /\ term["A"].typed # <<>>
    /\ Pty("A").stdin = <<>>
    /\ term["A"].inq = <<>>
    /\ term["A"].nsent = 2
    /\ term["A"].log = "pty resize failed"
    /\ term["A"].up


\* the handler of c has left its first position without a PTY session
Refused(c) == term[c].pc # "idle" /\ term[c].session = 0

\* C27: a connection whose create_session failed has been sent a close
\* frame and nothing else and its handler has returned: it has no session,
\* no reader task was started or aborted, no PTY exists for it, none of the
\* frames its client sent has been taken, and the handler went from accept
\* to its return in one step, never through its loop or its shutdown.
C27_CreateFailure ==
    /\ [](\A c \in Conns : Refused(c) =>
            /\ term[c].pc = "done"
            /\ term[c].out = << Msg("Close", <<>>) >>
            /\ term[c].rpc = "none"
            /\ term[c].rbuf = <<>>
            /\ term[c].reads = <<>>
            /\ ~term[c].aborted
            /\ term[c].lock = "none"
            /\ term[c].log = ""
            /\ Len(term[c].inq) = term[c].nsent
            /\ (\A p \in PtyIds : Owners(p) = {}) =>
                  \A p \in PtyIds : ptys[p] = NoPty)
    /\ [][ \A c \in Conns :
             /\ Refused(c)' => term'[c].pc = "done"
             /\ (Refused(c) /\ Refused(c)') =>
                   /\ term'[c].out = term[c].out
                   /\ IsPrefix(term[c].inq, term'[c].inq)
       ]_vars

\* C27 witness: create_session failed; the client has been sent the close
\* frame, and the two frames it sent meanwhile are still unread
C27_Witness ==
    /\ Refused("A")
    /\ term["A"].pc = "done"
    /\ term["A"].out = << Msg("Close", <<>>) >>
    /\ Len(term["A"].inq) = 2


\* C28: every key of the connection's subscription map is the sandbox root
\* or a descendant of it.
C28_KeysInRoot ==
    \A k \in DOMAIN sys.tracked : IsPrefix(root, k)


\* the queue q has grown by one item at its end
Grown(q, r) == Len(r) = Len(q) + 1 /\ IsPrefix(q, r)

IsChange(m) == m.event = "change"

IsReply(m) == m.event \in { "watching", "unwatched", "pong" }

\* C29: on a watch connection the stream of client messages changes only by
\* a message arriving at its end or by the loop taking the one at its head,
\* and the loop's reply to it goes to the end of what was sent: requests are
\* handled one at a time in arrival order and answered in that order.  The
\* channel of watcher results changes only by a result arriving at its end
\* or by the loop taking the one at its head, whose "change" messages (or
\* "watcher error") go to the end of what was sent: events are forwarded in
\* delivery order.  Every result the watcher delivers while the loop runs
\* is queued, however many are waiting.
C29_Ordering ==
    [][ /\ IsPrefix(sys.out, sys'.out)
        /\ sys'.inq # sys.inq =>
              \/ /\ Grown(sys.inq, sys'.inq)
                 /\ sys'.out = sys.out
                 /\ sys'.events = sys.events
              \/ /\ sys.inq # <<>>
                 /\ sys'.inq = Tail(sys.inq)
                 /\ sys'.events = sys.events
                 /\ Len(sys'.out) <= Len(sys.out) + 1
                 /\ \A i \in Len(sys.out) + 1..Len(sys'.out) :
                       ~IsChange(sys'.out[i])
        /\ sys'.events # sys.events =>
              \/ /\ Grown(sys.events, sys'.events)
                 /\ sys'.nevents = sys.nevents + 1
                 /\ sys'.out = sys.out
                 /\ sys'.inq = sys.inq
              \/ /\ sys.events # <<>>
                 /\ sys'.events = Tail(sys.events)
                 /\ sys'.nevents = sys.nevents
                 /\ sys'.inq = sys.inq
                 /\ LET ev == Head(sys.events)
                        new == SubSeq(sys'.out, Len(sys.out) + 1, Len(sys'.out))
                    IN  IF ev.ok
                        THEN /\ Len(new) <= Len(ev.paths)
                             /\ \A i \in 1..Len(new) : IsChange(new[i])
                        ELSE new = << ErrorEvent("watcher error") >>
        /\ sys'.nevents # sys.nevents => Grown(sys.events, sys'.events)
        /\ (sys'.out # sys.out /\ sys.pc = "loop") =>
              sys'.inq # sys.inq \/ sys'.events # sys.events
      ]_vars

\* C29 witness: at least two client messages and two watcher results have
\* been taken; two replies and two different "change" messages were sent
C29_Witness ==
    /\ sys.nsent >= 2
    /\ sys.inq = <<>>
    /\ sys.nevents = 2
    /\ sys.events = <<>>
    /\ Len(SelectSeq(sys.out, IsReply)) >= 2
    /\ LET changes == SelectSeq(sys.out, IsChange)
       IN  Len(changes) = 2 /\ changes[1] # changes[2]


\* the path resolve_path canonicalizes for the call in progress, built on
\* the root the call read
Candidate ==
    IF call.query.path.comps # <<>> \/ call.query.path.abs
    THEN push(call.root, call.query.path) ELSE call.root

\* C30: a call reads the shared root once, when it starts, and keeps that
\* value whatever set_root does meanwhile; when it finishes, a path it
\* returns is the canonical form of the candidate built on that value and is
\* that value or a descendant of it, and a path it refuses for escaping
\* escapes that value: the candidate and the containment check never use
\* two different roots.
C30_RootSnapshot ==
    [][ /\ (call.pc = "idle" /\ call'.pc # "idle") => call'.root = root
        /\ (call.pc # "idle" /\ call'.pc # "idle") =>
              call'.root = call.root /\ call'.query = call.query
        /\ (call.pc = "canon" /\ call'.pc = "done") =>
              LET canonical == canonicalize(Candidate)
              IN  /\ call'.res.ok =>
                        /\ canonical.ok
                        /\ call'.res.path = canonical.path
                        /\ IsPrefix(call.root, call'.res.path)
                  /\ (~call'.res.ok /\ canonical.ok) =>
                        ~IsPrefix(call.root, canonical.path)
      ]_vars

\* C30 witness: set_root replaced the root between the call's read and its
\* end; the path returned lies under the root the call read and not under
\* the root of now
C30_Witness ==
    /\ Finished
    /\ call.res.ok
    /\ root # call.root
    /\ IsPrefix(call.root, call.res.path)
    /\ ~IsPrefix(root, call.res.path)


\* C31: while a watch connection's loop runs, the keys of its subscription
\* map are exactly the paths registered with its watcher; a step that adds
\* a key leaves that path registered and acknowledges it with "watching",
\* and a step that unregisters a path removes its key.
C31_MapAndWatcher ==
    /\ [](sys.pc = "loop" => DOMAIN sys.tracked = sys.watched)
    /\ [][ sys'.pc = "loop" =>
             /\ \A k \in DOMAIN sys'.tracked \ DOMAIN sys.tracked :
                   /\ k \in sys'.watched
                   /\ Handles("watch")
                   /\ sys.open => /\ Len(sys'.out) = Len(sys.out) + 1
                                  /\ sys'.out[Len(sys'.out)].event = "watching"
             /\ \A k \in sys.watched \ sys'.watched :
                   /\ k \in DOMAIN sys.tracked
                   /\ k \notin DOMAIN sys'.tracked
                   /\ Handles("unwatch")
       ]_vars

\* C31 witness: two paths were watched and one of them unwatched; the one
\* that is left is both in the map and registered
C31_Witness ==
    /\ sys.pc = "loop"
    /\ Cardinality(DOMAIN sys.tracked) = 1
    /\ sys.watched = DOMAIN sys.tracked
    /\ Len(sys.out) = 3
    /\ sys.out[1].event = "watching"
    /\ sys.out[2].event = "watching"
    /\ sys.out[3].event = "unwatched"
    /\ sys.out[1].path # sys.out[2].path
    /\ Canon(sys.out[3].path).ok
    /\ Canon(sys.out[3].path).path \notin sys.watched


\* the last message sent is the acknowledgement of a watch
Acknowledged ==
    /\ Len(sys'.out) = Len(sys.out) + 1
    /\ sys'.out[Len(sys'.out)].event = "watching"

\* the positions in the messages sent of the "watching" acknowledgements
\* for the canonical path k
Watchings(k) ==
    { i \in 1..Len(sys.out) :
        /\ sys.out[i].event = "watching"
        /\ Canon(sys.out[i].path).ok
        /\ Canon(sys.out[i].path).path = k }

\* C32: a watch that is acknowledged, of a canonical path already in the
\* subscription map under another string, leaves the map's keys and its
\* other entries as they were and stores the string of this request; the
\* string stored for a key is the one of the latest acknowledged watch of
\* it; and a watcher event for a path whose canonical form is a key is
\* forwarded as one "change" carrying the string stored for that key.
C32_RewatchReplaces ==
    /\ [](\A k \in DOMAIN sys.tracked :
            Watchings(k) # {} /\ sys.out[Last(Watchings(k))].path = sys.tracked[k])
    /\ [][ /\ ( /\ Handles("watch")
                /\ Acknowledged
                /\ Canon(Requested).ok
                /\ Canon(Requested).path \in DOMAIN sys.tracked
                /\ sys.tracked[Canon(Requested).path] # Requested ) =>
                   /\ DOMAIN sys'.tracked = DOMAIN sys.tracked
                   /\ sys'.tracked[Canon(Requested).path] = Requested
                   /\ \A k \in DOMAIN sys.tracked \ { Canon(Requested).path } :
                         sys'.tracked[k] = sys.tracked[k]
           /\ ( /\ TakesEvent
                /\ Head(sys.events).ok
                /\ Len(Head(sys.events).paths) = 1
                /\ sys.open ) =>
                   LET canonical ==
                           exists_now(unlinked,
                                      canonicalize(Head(sys.events).paths[1]))
                   IN  (canonical.ok /\ canonical.path \in DOMAIN sys.tracked) =>
                          sys'.out = Append(sys.out,
                              Event("change", sys.tracked[canonical.path]))
       ]_vars

\* C32 witness: a directory was watched through a link and then under its
\* own name; the event for it was forwarded under its own name, and the map
\* holds one entry
C32_Witness ==
    /\ Len(sys.out) = 3
    /\ sys.out[1] = Event("watching", [ abs |-> FALSE, comps |-> << "in" >> ])
    /\ sys.out[2] = Event("watching", [ abs |-> FALSE, comps |-> << "d" >> ])
    /\ sys.out[3] = Event("change", [ abs |-> FALSE, comps |-> << "d" >> ])
    /\ DOMAIN sys.tracked = { << "box", "d" >> }
    /\ sys.tracked[<< "box", "d" >>] = [ abs |-> FALSE, comps |-> << "d" >> ]


\* the reader task of c is between sender.lock() and the end of its send
ReaderSends(c) == term[c].rpc \in { "send_data", "send_close" }

\* this step is a call of PtySession::write, resize or shutdown by the
\* handler of c: it locks the writer, the master or the child for the call
LocksPty(c) ==
    \/ TakesFrame(c) /\ dispatch(Next_msg(c)).act \in { "write", "resize" }
    \/ term[c].pc = "shutdown" /\ term'[c].pc = "abort"

\* C33: on a terminal connection the sender lock is held by the handler
\* exactly while it sends a Pong and by the reader task exactly while it
\* sends, and never by both; a frame is sent only by the task that holds the
\* lock, one frame per holding; the sender is taken only when it is free,
\* by a task that is not in a PTY call; the handler makes its PTY calls
\* (which lock the writer, the master or the child for the call) holding no
\* sender lock and taking none, and the reader task makes none; and a
\* handler waiting for the sender gets it.
C33_SendsSerialized ==
    /\ [](\A c \in Conns :
            /\ term[c].lock = "conn" <=> term[c].pc = "pong_send"
            /\ term[c].lock = "reader" <=> ReaderSends(c)
            /\ ~(term[c].pc = "pong_send" /\ ReaderSends(c)))
    /\ [][ \A c \in Conns :
             /\ (term[c].session # 0 /\ term'[c].out # term[c].out) =>
                   /\ term[c].lock # "none"
                   /\ term'[c].lock = "none"
                   /\ Len(term'[c].out) = Len(term[c].out) + 1
                   /\ IsPrefix(term[c].out, term'[c].out)
                   /\ term[c].lock = "conn" =>
                         term[c].rpc = term'[c].rpc /\ term'[c].pc = "loop"
                   /\ term[c].lock = "reader" =>
                         term[c].pc = term'[c].pc /\ ~ReaderSends(c)'
             /\ (term'[c].lock # term[c].lock /\ term'[c].lock # "none") =>
                   /\ term[c].lock = "none"
                   /\ ~LocksPty(c)
                   /\ ptys' = ptys
             /\ LocksPty(c) =>
                   /\ term[c].lock # "conn"
                   /\ term'[c].lock = term[c].lock
                   /\ term'[c].rpc = term[c].rpc
                   /\ term'[c].out = term[c].out
             /\ (term[c].rpc # "none" /\ term'[c].rpc # term[c].rpc) =>
                   /\ term'[c].pc = term[c].pc
                   /\ \A p \in PtyIds :
                         /\ ptys'[p].stdin = ptys[p].stdin
                         /\ ptys'[p].size = ptys[p].size
                         /\ ptys'[p].child = ptys[p].child
       ]_vars
    /\ \A c \in Conns :
          term[c].pc = "pong_lock" ~> term[c].pc = "pong_send"

\* C33 witness: the handler waits for the sender, to answer a Ping, while
\* the reader task holds it to send output, and frames were sent before
C33_Witness ==
    /\ term["A"].pc = "pong_lock"
    /\ term["A"].lock = "reader"
    /\ term["A"].rpc = "send_data"
    /\ term["A"].out # <<>>


\* the connection was accepted with the watch feature enabled and the
\* platform watcher could not be created
Failed == sys.pc # "idle" /\ sys.watch_enabled /\ sys.watcher = "none"

\* the positions in the messages sent of the error "file watching unavailable"
Unavailable ==
    { i \in 1..Len(sys.out) : sys.out[i] = ErrorEvent("file watching unavailable") }

\* C34: on a connection whose watcher could not be created, the first
\* message sent is the error "file watching unavailable" and it is sent
\* once; the subscription map is empty, nothing is registered, no watcher
\* result is queued and no "watching" or "change" message is ever sent; the
\* loop keeps running until the client closes or the transport fails or
\* ends; and every watch request whose path resolves inside the root is
\* answered with the error "watcher unavailable".
C34_WatcherInitFailure ==
    /\ [](Failed =>
            /\ sys.out # <<>>
            /\ Unavailable = { 1 }
            /\ sys.tracked = EmptyMap
            /\ sys.watched = {}
            /\ sys.events = <<>>
            /\ \A i \in 1..Len(sys.out) :
                  sys.out[i].event \notin { "watching", "change" }
            /\ sys.pc = "loop" \/ ~sys.up)
    /\ [][ Failed =>
             /\ (sys.pc = "loop" /\ sys'.pc # "loop") =>
                   /\ sys.inq # <<>>
                   /\ Head(sys.inq).type \in { "Close", "Error", "End" }
             /\ (Handles("watch") /\ Canon(Requested).ok /\ sys.open) =>
                   sys'.out = Append(sys.out, ErrorEvent("watcher unavailable"))
       ]_vars

\* C34 witness: the watcher could not be created; two watch requests were
\* each answered with "watcher unavailable" and the loop is still running
C34_Witness ==
    /\ Failed
    /\ sys.pc = "loop"
    /\ sys.inq = <<>>
    /\ sys.out = << ErrorEvent("file watching unavailable"),
                    ErrorEvent("watcher unavailable"),
                    ErrorEvent("watcher unavailable") >>

====
